---- MODULE Spec2Model ----
(***************************************************************************)
(* State-machine model of the chinchiro-royale game server:                *)
(*   server/game/GameRoom.js    (the session orchestrator)                 *)
(*   server/game/Player.js      (participant record)                       *)
(*   server/game/DiceEngine.js  (hand evaluation, comparison, multipliers) *)
(*   server/game/CheatTracker.js (accusation ledger)                       *)
(*   server/game/skills/*.js    (ability hooks)                            *)
(* Every socket handler runs to completion on the single node.js thread,   *)
(* so each handler (with every call it makes) is one atomic action.        *)
(* Timers (setTimeout) are variables that hold the armed callback.         *)
(***************************************************************************)
EXTENDS Integers, Sequences, FiniteSets, TLC

\* ------------------------------------------------------------------------
\* Program constants (GameState.js GameConfig, CheatTracker.js)
\* ------------------------------------------------------------------------
MIN_PLAYERS == 2
MAX_PLAYERS == 8
INITIAL_CHIPS == 50000
MIN_BET == 1000
MAX_REROLL_ATTEMPTS == 3
SET_BONUS_CHIPS == 100000
FALSE_ACCUSATION_LOSS == 100
GOD_HAND_LOSS == 500
DEFAULT_CHEAT_LOSS == 300

\* ------------------------------------------------------------------------
\* Bounds of the model
\* ------------------------------------------------------------------------
\* number of sockets that ever connect (ids are given in join order)
MaxIds == 3
\* rounds played in the dealer-rotation specification
MaxRoundRot == 3
\* accusations submitted per game in the turn-flow specification
MaxDoubtsFlow == 1
\* accusations submitted per game in the covert-ability specification
MaxDoubtsCheat == 2
\* rounds played in the covert-ability specification
MaxRoundCheat == 2
\* rounds played in the call-guard specification
MaxRoundGuard == 2
\* rounds played in the ledger specification
MaxRoundLedger == 2
\* accusations submitted per game in the ledger specification
MaxDoubtsLedger == 1
\* rounds played in the use-ceiling specification
MaxRoundUses == 2
\* largest cooldown of an ability instance whose methods are called on their own
MaxCooldown == 2
\* largest use ceiling of an ability instance whose methods are called on their own
MaxCeiling == 2
\* largest count asked of getRandomSkills
MaxCount == 4
\* sockets that ever try to join in the lobby specification: one more than
\* a full room
MaxSockets == 9
\* rounds played in the roll-order specification
MaxRoundOrder == 2
\* accusations submitted per game in the roll-order specification
MaxDoubtsOrder == 1

Ids == 1..MaxIds
\* an id no participant has (a target id a client may send)
UnknownId == MaxIds + 1

\* ------------------------------------------------------------------------
\* GameState.js: phases and the transition table
\* ------------------------------------------------------------------------
GameState ==
  {"waiting", "skill_distribution", "betting", "dealer_roll", "player_roll",
   "interrupt_window", "waiting_for_action", "result", "round_end", "game_end"}

StateTransitions ==
  [s \in GameState |->
     CASE s = "waiting" -> {"skill_distribution"}
       [] s = "skill_distribution" -> {"betting"}
       [] s = "betting" -> {"dealer_roll"}
       [] s = "dealer_roll" -> {"interrupt_window", "waiting_for_action", "dealer_roll"}
       [] s = "interrupt_window" -> {"player_roll", "result", "interrupt_window"}
       [] s = "waiting_for_action" ->
            {"interrupt_window", "dealer_roll", "player_roll", "waiting_for_action"}
       [] s = "player_roll" -> {"interrupt_window", "waiting_for_action", "player_roll"}
       [] s = "result" -> {"round_end"}
       [] s = "round_end" -> {"betting", "game_end"}
       [] s = "game_end" -> {"waiting"}]

isValidTransition(from, to) == to \in StateTransitions[from]

\* ------------------------------------------------------------------------
\* DiceEngine.js
\* ------------------------------------------------------------------------
HandType == {"pinzoro", "arashi", "shigoro", "normal", "menashi", "hifumi"}

HandRank ==
  [t \in HandType |->
     CASE t = "pinzoro" -> 100
       [] t = "arashi" -> 80
       [] t = "shigoro" -> 70
       [] t = "normal" -> 10
       [] t = "menashi" -> 0
       [] t = "hifumi" -> 0 - 100]

Multiplier ==
  [t \in HandType |->
     CASE t = "pinzoro" -> [dealer |-> 5, player |-> 3]
       [] t = "arashi" -> [dealer |-> 3, player |-> 3]
       [] t = "shigoro" -> [dealer |-> 2, player |-> 2]
       [] t = "normal" -> [dealer |-> 1, player |-> 1]
       [] t = "menashi" -> [dealer |-> 1, player |-> 1]
       [] t = "hifumi" -> [dealer |-> 2, player |-> 2]]

\* the value of a hand that has not been evaluated (currentHand = null)
NoHand == [type |-> "null", value |-> 0, rank |-> 0]

Min3(a, b, c) == IF a <= b /\ a <= c THEN a ELSE IF b <= c THEN b ELSE c
Max3(a, b, c) == IF a >= b /\ a >= c THEN a ELSE IF b >= c THEN b ELSE c

\* a sort that leaves the dice in the order they fell
SortDiceAsRolled(dice) == dice

\* [...dice].sort((a, b) => a - b)
SortDice(dice) ==
  LET lo == Min3(dice[1], dice[2], dice[3])
      hi == Max3(dice[1], dice[2], dice[3])
  IN  <<lo, dice[1] + dice[2] + dice[3] - lo - hi, hi>>

evaluateHand(dice) ==
  LET sorted == SortDice(dice)
      d1 == sorted[1]
      d2 == sorted[2]
      d3 == sorted[3]
  IN  IF d1 = 1 /\ d2 = 2 /\ d3 = 3
        THEN [type |-> "hifumi", value |-> 0, rank |-> HandRank["hifumi"]]
      ELSE IF d1 = 4 /\ d2 = 5 /\ d3 = 6
        THEN [type |-> "shigoro", value |-> 0, rank |-> HandRank["shigoro"]]
      ELSE IF d1 = 1 /\ d2 = 1 /\ d3 = 1
        THEN [type |-> "pinzoro", value |-> 1, rank |-> HandRank["pinzoro"]]
      ELSE IF d1 = d2 /\ d2 = d3
        THEN [type |-> "arashi", value |-> d1, rank |-> HandRank["arashi"] + d1]
      ELSE IF d1 = d2
        THEN [type |-> "normal", value |-> d3, rank |-> HandRank["normal"] + d3]
      ELSE IF d2 = d3
        THEN [type |-> "normal", value |-> d1, rank |-> HandRank["normal"] + d1]
      ELSE IF d1 = d3
        THEN [type |-> "normal", value |-> d2, rank |-> HandRank["normal"] + d2]
      ELSE [type |-> "menashi", value |-> 0, rank |-> HandRank["menashi"]]

\* a comparison that gives equal ranks to the challenger
compareHandsTieToPlayer(hand1, hand2, forceResolution) ==
  IF ~forceResolution /\ (hand1.type = "menashi" \/ hand2.type = "menashi")
    THEN [winner |-> "null",
          needsReroll |-> IF hand1.type = "menashi" THEN "dealer" ELSE "player"]
  ELSE IF hand1.rank > hand2.rank THEN [winner |-> "dealer", needsReroll |-> "null"]
  ELSE [winner |-> "player", needsReroll |-> "null"]

\* compareHands(hand1 = dealer, hand2 = player, forceResolution): the winner
compareHands(hand1, hand2, forceResolution) ==
  IF ~forceResolution /\ (hand1.type = "menashi" \/ hand2.type = "menashi")
    THEN [winner |-> "null",
          needsReroll |-> IF hand1.type = "menashi" THEN "dealer" ELSE "player"]
  ELSE IF hand1.rank > hand2.rank THEN [winner |-> "dealer", needsReroll |-> "null"]
  ELSE IF hand1.rank < hand2.rank THEN [winner |-> "player", needsReroll |-> "null"]
  ELSE [winner |-> "dealer", needsReroll |-> "null"]

\* a lookup that returns the dealer's multiplier for either role
getMultiplierDealerOnly(hand, isDealerRole) == Multiplier[hand.type].dealer

getMultiplier(hand, isDealerRole) ==
  IF isDealerRole THEN Multiplier[hand.type].dealer ELSE Multiplier[hand.type].player

\* ------------------------------------------------------------------------
\* State
\* ------------------------------------------------------------------------
VARIABLES
  \* GameRoom fields
  state,               \* this.state
  players,             \* keys of this.players (a Map: iterated in join order)
  playerOrder,         \* this.playerOrder
  roundNumber,         \* this.roundNumber
  currentDealerId,     \* this.currentDealerId (0 = null)
  currentPlayerId,     \* this.currentPlayerId (0 = null)
  dealerIndex,         \* this.dealerIndex (0-based, as in the source)
  currentPlayerIndex,  \* this.currentPlayerIndex (0-based)
  currentSet,          \* this.currentSet
  setStartDealerIndex, \* this.setStartDealerIndex
  interruptTimer,      \* this.interruptTimer with the closure of its callback
  actionTimer,         \* this.actionTimer with the closure of its callback
  pendingAction,       \* this.pendingAction
  roundTimer,          \* the pending setTimeout of calculateResults / endRound
  roundResults,        \* this.roundResults
  exited,              \* the server process has ended (process.exit)
  cheatLog,            \* this.cheatTracker.cheatLog
  \* Player fields, one function per field
  chips, currentBet, currentDice, currentHand, isDealer, hasRolled,
  rerollCount, isWaitingForReroll, rank,
  \* BaseSkill fields of player.skill
  skill, useCount, cooldownRemaining,
  \* history variables (observers, no effect on the program)
  nextId,              \* ids handed out so far + 1
  doubts,              \* accusations that passed the phase check of handleDoubt so far
  blanks,              \* blank results of a participant in the current round
  autoLoss,            \* the participant's roll was recorded as automatic loss
  finalized,           \* rollers whose roll opened an interrupt window, this round
  window,              \* bookkeeping of the current interrupt window
  resolved,            \* bookkeeping of the current pending ability action
  rotation,            \* bookkeeping of the last round-end rotation
  bankruptRound,       \* the first round at whose end a participant was found bankrupt
  reply,               \* the last call of a socket handler and the result it sent back
  changes,             \* the changeState calls of the last step, in order
  \* a call of a static function of DiceEngine on its own
  call                 \* the function, its arguments and, once it returned, its result

roomVars == <<state, players, playerOrder, roundNumber, currentDealerId,
              currentPlayerId, dealerIndex, currentPlayerIndex, currentSet,
              setStartDealerIndex, interruptTimer, actionTimer, pendingAction,
              roundTimer, roundResults, cheatLog, exited>>
playerVars == <<chips, currentBet, currentDice, currentHand, isDealer, hasRolled,
                rerollCount, isWaitingForReroll, rank>>
skillVars == <<skill, useCount, cooldownRemaining>>
histVars == <<nextId, doubts, blanks, autoLoss, finalized, window,
              resolved, rotation, bankruptRound, reply, changes>>
vars == <<roomVars, playerVars, skillVars, histVars, call>>

NoTimer == [armed |-> FALSE, previousState |-> "null", rolledPlayer |-> 0]
NoActionTimer == [armed |-> FALSE, playerId |-> 0]
NoPending == [playerId |-> 0, skillId |-> "null", originalDice |-> <<>>,
              opponentId |-> 0]
NoWindow == [roller |-> 0, index |-> 0, ends |-> 0, accepted |-> 0, advances |-> 0]
NoResolved == [playerId |-> 0, count |-> 0, byTimer |-> FALSE]
NoRotation == [round |-> 0, from |-> 0, to |-> 0, passedStart |-> FALSE,
               skipped |-> {}, bonus |-> FALSE, eligible |-> {}]
\* no socket call in the last step (a timer callback ran)
NoReply == [op |-> "none", by |-> 0, target |-> 0, success |-> TRUE, caught |-> FALSE]

\* the result a socket handler sends back for the call op(by, target)
Reply(op, by, target, success) ==
  [op |-> op, by |-> by, target |-> target, success |-> success, caught |-> FALSE]

\* the result the DOUBT handler sends back: that of handleDoubt, with its
\* `caught`, or the error of sendError when handleDoubt threw
DoubtReply(by, target, success, caught) ==
  [op |-> "doubt", by |-> by, target |-> target, success |-> success,
   caught |-> caught]

\* the result the PLACE_BET handler sends back for placeBet(by, amount)
BetReply(by, amount, success) ==
  [op |-> "place_bet", by |-> by, target |-> 0, success |-> success,
   caught |-> FALSE, amount |-> amount]

\* changeState(newState) after the calls in pre: state is set to newState
\* whether or not isValidTransition(state, newState) holds
changeState(pre, newState) ==
  Append(pre, [from |-> IF pre = <<>> THEN state ELSE pre[Len(pre)].to,
               to |-> newState])

\* no call of a DiceEngine function on its own
NoCall == [fn |-> "none", done |-> FALSE]

\* new GameRoom(id, hostId) and the fields of every new Player(id, name,
\* socketId)
InitRoom ==
  /\ state = "waiting"
  /\ players = {}
  /\ playerOrder = <<>>
  /\ roundNumber = 0
  /\ currentDealerId = 0
  /\ currentPlayerId = 0
  /\ dealerIndex = 0
  /\ currentPlayerIndex = 0
  /\ currentSet = 1
  /\ setStartDealerIndex = 0
  /\ interruptTimer = NoTimer
  /\ actionTimer = NoActionTimer
  /\ pendingAction = NoPending
  /\ roundTimer = "none"
  /\ roundResults = <<>>
  /\ cheatLog = <<>>
  /\ chips = [p \in Ids |-> 1000]
  /\ currentBet = [p \in Ids |-> 0]
  /\ currentDice = [p \in Ids |-> <<>>]
  /\ currentHand = [p \in Ids |-> NoHand]
  /\ isDealer = [p \in Ids |-> FALSE]
  /\ hasRolled = [p \in Ids |-> FALSE]
  /\ rerollCount = [p \in Ids |-> 0]
  /\ isWaitingForReroll = [p \in Ids |-> FALSE]
  /\ rank = [p \in Ids |-> 0]
  /\ skill = [p \in Ids |-> "null"]
  /\ useCount = [p \in Ids |-> 0]
  /\ cooldownRemaining = [p \in Ids |-> 0]
  /\ nextId = 1
  /\ doubts = 0
  /\ blanks = [p \in Ids |-> 0]
  /\ autoLoss = [p \in Ids |-> FALSE]
  /\ finalized = <<>>
  /\ window = NoWindow
  /\ resolved = NoResolved
  /\ rotation = NoRotation
  /\ bankruptRound = [p \in Ids |-> 0]
  /\ exited = FALSE
  /\ reply = NoReply
  /\ changes = <<>>

\* a new session, with no DiceEngine call on its own
Init == InitRoom /\ call = NoCall

\* ------------------------------------------------------------------------
\* Helpers over the roster
\* ------------------------------------------------------------------------
\* Array.prototype.filter on a sequence
RECURSIVE FilterOut(_, _)
FilterOut(seq, x) ==
  IF seq = <<>> THEN <<>>
  ELSE IF Head(seq) = x THEN FilterOut(Tail(seq), x)
  ELSE <<Head(seq)>> \o FilterOut(Tail(seq), x)

\* the ids of a set in Map iteration order (ids are given in join order)
RECURSIVE Ascending(_)
Ascending(S) ==
  IF S = {} THEN <<>>
  ELSE LET m == CHOOSE x \in S : \A y \in S : x <= y
       IN  <<m>> \o Ascending(S \ {m})

\* a roster of non-dealers that leaves out the participants without chips
getNonDealersSolvent(dealer) ==
  Ascending({p \in players \ {dealer} : ~(chips[p] <= 0)})

\* getNonDealers(): this.players filtered by id !== currentDealerId
getNonDealers(dealer) == Ascending(players \ {dealer})

\* playerOrder.filter(id => id !== this.currentDealerId)
OrderNonDealers(order, dealer) == FilterOut(order, dealer)

\* orders in which an id may stand at several places
ShufflesWithRepeats(S) == [1..Cardinality(S) -> S]

\* all orders shuffleArray can produce from the join-order array
Shuffles(S) ==
  {f \in [1..Cardinality(S) -> S] : \A i, j \in 1..Cardinality(S) : f[i] = f[j] => i = j}

\* a bankruptcy test that lets a balance of exactly 0 pass as solvent
isBankruptBelowZero(c) == c < 0

\* Player.isBankrupt()
isBankrupt(c) == c <= 0

\* ------------------------------------------------------------------------
\* GameRoom.calculateResults: the chip transfers, one non-dealer after another
\* ------------------------------------------------------------------------
\* the multiplier of an onResultCalculation hook as the fraction num / den;
\* only Banker returns `modified`: 1.5 when its holder wins the comparison,
\* 1.2 when its holder loses it
onResultCalculation(skillId, holderIsDealer, winner) ==
  IF skillId = "banker"
    THEN IF (winner = "dealer") = holderIsDealer
           THEN [modified |-> TRUE, num |-> 3, den |-> 2]
           ELSE [modified |-> TRUE, num |-> 6, den |-> 5]
    ELSE [modified |-> FALSE, num |-> 1, den |-> 1]

\* `multiplier` after the two hooks of calculateResults (the non-dealer's,
\* then the dealer's), as the fraction num / den
skillMultiplier(p, dealer, winner) ==
  LET own == onResultCalculation(skill[p], FALSE, winner)
      house == onResultCalculation(skill[dealer], TRUE, winner)
  IN  [num |-> own.num * house.num, den |-> own.den * house.den]

\* a payout that leaves the dealer's multiplier out of the product
chipTransferPlayerMultOnly(baseBet, dealerHand, playerHand, num, den) ==
  (baseBet * getMultiplier(playerHand, FALSE) * num) \div den

\* Math.floor(baseBet * totalMult * multiplier) with multiplier = num / den
chipTransfer(baseBet, dealerHand, playerHand, num, den) ==
  LET dealerMult == getMultiplier(dealerHand, TRUE)
      playerMult == getMultiplier(playerHand, FALSE)
      totalMult == dealerMult * playerMult
  IN  (baseBet * totalMult * num) \div den

\* the entry pushed to `results` for one non-dealer
ResultEntry(p, dealer) ==
  LET comparison == compareHands(currentHand[dealer], currentHand[p], TRUE)
      multiplier == skillMultiplier(p, dealer, comparison.winner)
  IN  [playerId |-> p, dealerId |-> dealer, winner |-> comparison.winner,
       bet |-> currentBet[p],
       chipTransfer |->
         chipTransfer(currentBet[p], currentHand[dealer], currentHand[p],
                      multiplier.num, multiplier.den)]

RECURSIVE ResultList(_, _)
ResultList(nonDealers, dealer) ==
  IF nonDealers = <<>> THEN <<>>
  ELSE <<ResultEntry(Head(nonDealers), dealer)>> \o ResultList(Tail(nonDealers), dealer)

\* an entry applied to the winner's balance alone
ApplyEntryCreditOnly(c, e) ==
  IF e.winner = "dealer"
    THEN [c EXCEPT ![e.dealerId] = c[e.dealerId] + e.chipTransfer]
  ELSE IF e.winner = "player"
    THEN [c EXCEPT ![e.playerId] = c[e.playerId] + e.chipTransfer]
  ELSE c

\* removeChips / addChips of one entry applied to the balances
ApplyEntry(c, e) ==
  IF e.winner = "dealer"
    THEN [c EXCEPT ![e.playerId] = c[e.playerId] - e.chipTransfer,
                   ![e.dealerId] = c[e.dealerId] + e.chipTransfer]
  ELSE IF e.winner = "player"
    THEN [c EXCEPT ![e.dealerId] = c[e.dealerId] - e.chipTransfer,
                   ![e.playerId] = c[e.playerId] + e.chipTransfer]
  ELSE c

RECURSIVE ApplyResults(_, _)
ApplyResults(c, results) ==
  IF results = <<>> THEN c
  ELSE ApplyResults(ApplyEntry(c, Head(results)), Tail(results))

\* calculateResults(), entered with the balances chipsIn and the roller
\* index idx, after the changeState calls in pre; sets the variables of the
\* turn.  When the dealer has left, getDealer() is undefined and the first
\* comparison throws after changeState(result): inTimer tells that the call
\* comes from a timer callback, where the uncaught exception ends the process
calculateResults(chipsIn, idx, pre, inTimer) ==
  LET nonDealers == getNonDealers(currentDealerId)
      results == ResultList(nonDealers, currentDealerId)
  IN  /\ state' = "result"
      /\ changes' = changeState(pre, "result")
      /\ currentPlayerIndex' = idx
      /\ currentPlayerId' = currentPlayerId
      /\ IF currentDealerId \notin players /\ nonDealers # <<>>
           THEN /\ chips' = chipsIn
                /\ exited' = inTimer
                /\ UNCHANGED <<roundResults, roundTimer>>
           ELSE /\ chips' = ApplyResults(chipsIn, results)
                /\ roundResults' = results
                /\ roundTimer' = "endRound"
                /\ UNCHANGED exited

\* startPlayerRolls() (the later of the two definitions of the class, which
\* is the one the class keeps)
startPlayerRolls(chipsIn) ==
  LET nonDealers == OrderNonDealers(playerOrder, currentDealerId)
  IN  IF Len(nonDealers) = 0
        THEN calculateResults(chipsIn, 0, changeState(<<>>, "player_roll"), FALSE)
        ELSE /\ state' = "player_roll"
             /\ UNCHANGED exited
             /\ changes' = changeState(<<>>, "player_roll")
             /\ currentPlayerIndex' = 0
             /\ currentPlayerId' = nonDealers[1]
             /\ chips' = chipsIn
             /\ UNCHANGED <<roundResults, roundTimer>>

\* nextPlayerRoll(), with startDealerRoll() when the non-dealers are done
nextPlayerRoll(chipsIn) ==
  LET nonDealers == OrderNonDealers(playerOrder, currentDealerId)
      idx == currentPlayerIndex + 1
  IN  /\ currentPlayerIndex' = idx
      /\ chips' = chipsIn
      /\ UNCHANGED <<roundResults, roundTimer, exited>>
      /\ IF idx >= Len(nonDealers)
           THEN /\ state' = "dealer_roll"
                /\ changes' = changeState(<<>>, "dealer_roll")
                /\ currentPlayerId' = currentPlayerId
           ELSE /\ state' = "player_roll"
                /\ changes' = changeState(<<>>, "player_roll")
                /\ currentPlayerId' = nonDealers[idx + 1]

\* ------------------------------------------------------------------------
\* Lobby and game start
\* ------------------------------------------------------------------------
\* a pair of checks that lets a socket join once the game has started
joinRejectedWhenFull == Cardinality(players) >= MAX_PLAYERS

\* the checks of GameManager.joinRoom and GameRoom.addPlayer
joinRejected ==
  \/ Cardinality(players) >= MAX_PLAYERS
  \/ state # "waiting"

\* GameManager.joinRoom for the next new socket, one of sockets, stopped by
\* one of the checks: the socket stays outside and may try again
JoinRoomRejected(sockets) ==
  /\ UNCHANGED call
  /\ nextId \in sockets
  /\ joinRejected
  /\ reply' = Reply("join_room", nextId, 0, FALSE)
  /\ changes' = <<>>
  /\ UNCHANGED <<roomVars, playerVars, skillVars>>
  /\ UNCHANGED <<nextId, doubts, blanks, autoLoss, finalized, window, resolved,
                 rotation, bankruptRound>>

\* GameManager.createRoom / joinRoom -> GameRoom.addPlayer, for the next new
\* socket, one of sockets
JoinRoomOf(sockets) ==
  /\ UNCHANGED call
  /\ nextId \in sockets
  /\ ~joinRejected
  /\ players' = players \cup {nextId}
  /\ nextId' = nextId + 1
  /\ reply' = Reply("join_room", nextId, 0, TRUE)
  /\ changes' = <<>>
  /\ UNCHANGED <<state, playerOrder, roundNumber, currentDealerId, currentPlayerId,
                 dealerIndex, currentPlayerIndex, currentSet, setStartDealerIndex,
                 interruptTimer, actionTimer, pendingAction, roundTimer,
                 roundResults, cheatLog>>
  /\ UNCHANGED <<playerVars, skillVars>>
  /\ UNCHANGED <<doubts, blanks, autoLoss, finalized, window, resolved, rotation, bankruptRound, exited>>

\* GameManager.createRoom / joinRoom -> GameRoom.addPlayer, for a new socket
JoinRoom == JoinRoomOf(Ids)

\* startNewRound() for the roll order `order` and the dealer flags isDealerIn
startNewRound(order, isDealerIn, pre) ==
  LET dealer == order[dealerIndex + 1]
  IN  /\ roundNumber' = roundNumber + 1
      /\ roundResults' = <<>>
      /\ currentDealerId' = dealer
      /\ isDealer' = [isDealerIn EXCEPT ![dealer] = TRUE]
      /\ currentBet' = [p \in Ids |-> IF p \in players THEN 0 ELSE currentBet[p]]
      /\ currentDice' = [p \in Ids |-> IF p \in players THEN <<>> ELSE currentDice[p]]
      /\ currentHand' = [p \in Ids |-> IF p \in players THEN NoHand ELSE currentHand[p]]
      /\ hasRolled' = [p \in Ids |-> IF p \in players THEN FALSE ELSE hasRolled[p]]
      /\ rerollCount' = [p \in Ids |-> IF p \in players THEN 0 ELSE rerollCount[p]]
      /\ state' = "betting"
      /\ changes' = changeState(pre, "betting")
      /\ blanks' = [p \in Ids |-> 0]
      /\ autoLoss' = [p \in Ids |-> FALSE]
      /\ finalized' = <<>>

\* the body of startGame() with distributeSkills() and the first
\* startNewRound(); order is the outcome of shuffleArray, assign the
\* abilities handed out
StartGameWith(order, assign) ==
  /\ UNCHANGED call
  /\ playerOrder' = order
  /\ chips' = [p \in Ids |-> IF p \in players THEN INITIAL_CHIPS ELSE chips[p]]
  /\ rank' = [p \in Ids |-> IF p \in players THEN 0 ELSE rank[p]]
  /\ skill' = [p \in Ids |-> IF p \in players THEN assign[p] ELSE skill[p]]
  /\ useCount' = [p \in Ids |-> 0]
  /\ cooldownRemaining' = [p \in Ids |-> 0]
  /\ startNewRound(order, [p \in Ids |-> IF p \in players THEN FALSE ELSE isDealer[p]],
                   changeState(<<>>, "skill_distribution"))
  /\ reply' = Reply("start_game", 0, 0, TRUE)
  /\ UNCHANGED <<players, currentPlayerId, dealerIndex, currentPlayerIndex, currentSet,
                 setStartDealerIndex, interruptTimer, actionTimer, pendingAction,
                 roundTimer, cheatLog, isWaitingForReroll>>
  /\ UNCHANGED <<nextId, doubts, window, resolved, rotation, bankruptRound, exited>>

\* the two checks of startGame()
startGameRejected ==
  \/ Cardinality(players) < MIN_PLAYERS
  \/ state # "waiting"

\* startGame() from the START_GAME socket handler, stopped by one of its
\* checks
StartGameRejected ==
  /\ UNCHANGED call
  /\ startGameRejected
  /\ reply' = Reply("start_game", 0, 0, FALSE)
  /\ changes' = <<>>
  /\ UNCHANGED <<roomVars, playerVars, skillVars>>
  /\ UNCHANGED <<nextId, doubts, blanks, autoLoss, finalized, window, resolved,
                 rotation, bankruptRound>>

StartGame(assign) ==
  /\ ~startGameRejected
  /\ \E order \in Shuffles(players) : StartGameWith(order, assign)

\* the current configuration: distributeSkills hands out no ability
NoSkills == [p \in Ids |-> "null"]

\* ------------------------------------------------------------------------
\* Betting
\* ------------------------------------------------------------------------
\* Player.placeBet(amount)
PlayerPlaceBetOk(p, amount) == ~(amount > chips[p] /\ amount # 1000)

\* a series of checks that lets the dealer place a wager
placeBetRejectedDealerPasses(p, amount) ==
  \/ state # "betting"
  \/ p \notin players
  \/ amount < MIN_BET
  \/ ~PlayerPlaceBetOk(p, amount)

\* the checks of GameRoom.placeBet(playerId, amount), in the order of the
\* source; MAX_BET is Infinity, so `amount > MAX_BET` never holds
placeBetRejected(p, amount) ==
  \/ state # "betting"
  \/ p \notin players
  \/ isDealer[p]
  \/ amount < MIN_BET
  \/ ~PlayerPlaceBetOk(p, amount)

\* a test of the wagers that is satisfied by the wager of one non-dealer
someNonDealerBetted(bets) ==
  LET nonDealers == getNonDealers(currentDealerId)
  IN  \E i \in 1..Len(nonDealers) : bets[nonDealers[i]] > 0

\* nonDealers.every(p => p.currentBet > 0) for the wagers bets
allNonDealersBetted(bets) ==
  LET nonDealers == getNonDealers(currentDealerId)
  IN  \A i \in 1..Len(nonDealers) : bets[nonDealers[i]] > 0

\* GameRoom.placeBet(playerId, amount) from the PLACE_BET socket handler,
\* stopped by one of its checks
PlaceBetRejected(p, amount) ==
  /\ UNCHANGED call
  /\ placeBetRejected(p, amount)
  /\ reply' = BetReply(p, amount, FALSE)
  /\ changes' = <<>>
  /\ UNCHANGED <<roomVars, playerVars, skillVars>>
  /\ UNCHANGED <<nextId, doubts, blanks, autoLoss, finalized, window, resolved,
                 rotation, bankruptRound>>

\* GameRoom.placeBet(playerId, amount), accepted
PlaceBet(p, amount) ==
  /\ UNCHANGED call
  /\ ~placeBetRejected(p, amount)
  /\ currentBet' = [currentBet EXCEPT ![p] = amount]
  /\ IF allNonDealersBetted(currentBet')
       THEN startPlayerRolls(chips)
       ELSE /\ changes' = <<>>
            /\ UNCHANGED <<state, currentPlayerIndex, currentPlayerId, chips,
                           roundResults, roundTimer, exited>>
  /\ reply' = BetReply(p, amount, TRUE)
  /\ UNCHANGED <<players, playerOrder, roundNumber, currentDealerId, dealerIndex,
                 currentSet, setStartDealerIndex, interruptTimer, actionTimer,
                 pendingAction, cheatLog>>
  /\ UNCHANGED <<currentDice, currentHand, isDealer, hasRolled, rerollCount,
                 isWaitingForReroll, rank>>
  /\ UNCHANGED skillVars
  /\ UNCHANGED <<nextId, doubts, blanks, autoLoss, finalized, window, resolved, rotation, bankruptRound>>

\* ------------------------------------------------------------------------
\* Abilities (skills/BaseSkill.js and its subclasses)
\* ------------------------------------------------------------------------
\* this.maxUses of each ability class (-1 = unlimited)
maxUses(id) ==
  CASE id = "bomber" -> 0 - 1
    [] id = "revolutionary" -> 0 - 1
    [] id = "banker" -> 0 - 1
    [] OTHER -> 1

\* this.cooldown of each ability class: BaseSkill's constructor sets 0 and
\* no subclass sets another value
cooldown(id) == 0

\* the BaseSkill fields of the ability instance of participant p
SkillOf(p) ==
  [maxUses |-> maxUses(skill[p]), cooldown |-> cooldown(skill[p]),
   useCount |-> useCount[p], cooldownRemaining |-> cooldownRemaining[p]]

\* a usability test that ignores the use ceiling
skillCanUseAnyCount(s) == ~(s.cooldownRemaining > 0)

\* BaseSkill.canUse() on the instance s
skillCanUse(s) ==
  /\ ~(s.cooldownRemaining > 0)
  /\ ~(s.maxUses # 0 - 1 /\ s.useCount >= s.maxUses)

\* BaseSkill.markUsed() on the instance s
markUsed(s) == [s EXCEPT !.useCount = @ + 1, !.cooldownRemaining = s.cooldown]

\* BaseSkill.onRoundEnd() on the instance s
onRoundEnd(s) ==
  IF s.cooldownRemaining > 0 THEN [s EXCEPT !.cooldownRemaining = @ - 1] ELSE s

\* player.skill.canUse()
canUse(p) == skillCanUse(SkillOf(p))

\* GodHand.beforeRoll takes effect
GodHandFires(p) == skill[p] = "god_hand" /\ canUse(p)

\* Mosaic.beforeRoll and FourthDimension.beforeRoll return requiresAction
BeforeRollRequiresAction(p) ==
  skill[p] \in {"mosaic", "fourth_dimension"} /\ canUse(p)

\* Switch.afterRoll: the opponent whose dice the holder may swap with (the
\* current roller for a dealer, the dealer for anybody else; 0 = none)
SwitchOpponent(p) ==
  LET opponent == IF isDealer[p] THEN currentPlayerId ELSE currentDealerId
  IN  IF opponent \in players /\ currentDice[opponent] # <<>> THEN opponent ELSE 0

\* Sniper.afterRoll: the dealer whose dice the holder may aim at (0 = none).
\* The test `!dealer.currentDice` is false for every array, the empty one
\* included, so a dealer that has not rolled yet is a target as well
SniperTarget(p) ==
  IF currentDealerId \in players /\ currentDealerId # p THEN currentDealerId ELSE 0

\* the afterRoll hook of GravityMaster, Switch, Flipper or Sniper asks for a
\* decision
RequiresAction(p) ==
  \/ skill[p] = "gravity_master" /\ canUse(p)
  \/ skill[p] = "switch" /\ canUse(p) /\ SwitchOpponent(p) # 0
  \/ skill[p] = "flipper" /\ canUse(p)
  \/ skill[p] = "sniper" /\ canUse(p) /\ SniperTarget(p) # 0

\* Revolutionary.afterRoll(ctx, diceResult): for a sorted 1-2-3 the result
\* carries the same dice as newDice and an overrideHand; the hook does not
\* ask canUse()
RevolutionaryAfterRoll(diceResult) ==
  IF SortDice(diceResult) = <<1, 2, 3>>
    THEN [modified |-> TRUE, newDice |-> diceResult,
          overrideHand |-> [type |-> "pinzoro", value |-> 1, rank |-> 100]]
    ELSE [modified |-> FALSE, newDice |-> diceResult, overrideHand |-> NoHand]

\* a ledger that drops the record it is handed
logCheatDropped(log, p, skillId, round) == log

\* CheatTracker.logCheat(playerId, skillId, roundNumber)
logCheat(log, p, skillId, round) ==
  Append(log, [playerId |-> p, skillId |-> skillId, roundNumber |-> round,
               doubted |-> FALSE, doubterId |-> 0])

\* ------------------------------------------------------------------------
\* Rolling
\* ------------------------------------------------------------------------
\* a window that is opened without a timer that ends it
startInterruptWindowUnarmed(p) ==
  /\ state' = "interrupt_window"
  /\ changes' = changeState(<<>>, "interrupt_window")
  /\ interruptTimer' = NoTimer
  /\ window' = [roller |-> p, index |-> currentPlayerIndex, ends |-> 0,
                accepted |-> 0, advances |-> 0]
  /\ finalized' = Append(finalized, p)

\* startInterruptWindow(rolledPlayer): sets state and interruptTimer
startInterruptWindow(p) ==
  /\ state' = "interrupt_window"
  /\ changes' = changeState(<<>>, "interrupt_window")
  /\ interruptTimer' = [armed |-> TRUE, previousState |-> state, rolledPlayer |-> p]
  /\ window' = [roller |-> p, index |-> currentPlayerIndex, ends |-> 0,
                accepted |-> 0, advances |-> 0]
  /\ finalized' = Append(finalized, p)

\* finalizeRoll(player, dice, effectData), entered with the dice diceIn and
\* the hands handIn of the participants
finalizeRollFrom(p, dice, diceIn, handIn) ==
  LET hand == evaluateHand(dice)
      count == rerollCount[p] + 1
  IN  /\ currentDice' = [diceIn EXCEPT ![p] = dice]
      /\ currentHand' = [handIn EXCEPT ![p] = hand]
      /\ IF hand.type = "menashi"
           THEN /\ rerollCount' = [rerollCount EXCEPT ![p] = count]
                /\ blanks' = [blanks EXCEPT ![p] = blanks[p] + 1]
                /\ IF count >= MAX_REROLL_ATTEMPTS
                     THEN /\ hasRolled' = [hasRolled EXCEPT ![p] = TRUE]
                          /\ isWaitingForReroll' = [isWaitingForReroll EXCEPT ![p] = FALSE]
                          /\ autoLoss' = [autoLoss EXCEPT ![p] = TRUE]
                          /\ startInterruptWindow(p)
                     ELSE /\ hasRolled' = [hasRolled EXCEPT ![p] = FALSE]
                          /\ isWaitingForReroll' = [isWaitingForReroll EXCEPT ![p] = TRUE]
                          /\ autoLoss' = [autoLoss EXCEPT ![p] = FALSE]
                          /\ changes' = <<>>
                          /\ UNCHANGED <<state, interruptTimer, window, finalized>>
           ELSE /\ hasRolled' = [hasRolled EXCEPT ![p] = TRUE]
                /\ isWaitingForReroll' = [isWaitingForReroll EXCEPT ![p] = FALSE]
                /\ autoLoss' = [autoLoss EXCEPT ![p] = FALSE]
                /\ UNCHANGED <<rerollCount, blanks>>
                /\ startInterruptWindow(p)

\* finalizeRoll(player, dice, effectData)
finalizeRoll(p, dice) == finalizeRollFrom(p, dice, currentDice, currentHand)

\* the state check of rollDice (a participant waiting for a reroll passes it)
RollAllowed(p) ==
  \/ isWaitingForReroll[p]
  \/ /\ ~(state = "dealer_roll" /\ p # currentDealerId)
     /\ ~(state = "player_roll" /\ p # currentPlayerId)
     /\ ~(state # "dealer_roll" /\ state # "player_roll")

\* the checks of rollDice(playerId): the participant exists and passes
\* the state check
rollDiceRejected(p) == p \notin players \/ ~RollAllowed(p)

\* rollDice(playerId) from the ROLL_DICE socket handler, stopped by one of
\* its checks
RollDiceRejected(p) ==
  /\ UNCHANGED call
  /\ rollDiceRejected(p)
  /\ reply' = Reply("roll_dice", p, 0, FALSE)
  /\ changes' = <<>>
  /\ UNCHANGED <<roomVars, playerVars, skillVars>>
  /\ UNCHANGED <<nextId, doubts, blanks, autoLoss, finalized, window, resolved,
                 rotation, bankruptRound>>

\* rollDice(playerId), accepted; rolled is the outcome of DiceEngine.roll().
\* Of the result of beforeRoll only `override && dice` is read (GodHand's
\* 4-5-6); of the result of afterRoll, requiresAction, modified and newDice
RollDice(p, rolled) ==
  /\ UNCHANGED call
  /\ ~rollDiceRejected(p)
  /\ LET fires == GodHandFires(p)
         beforeDice == IF fires THEN <<4, 5, 6>> ELSE rolled
         afterResult == RevolutionaryAfterRoll(beforeDice)
         diceResult == IF skill[p] = "revolutionary" /\ afterResult.modified
                         THEN afterResult.newDice ELSE beforeDice
     IN  /\ useCount' = [useCount EXCEPT ![p] =
                           IF fires THEN markUsed(SkillOf(p)).useCount ELSE @]
         /\ cooldownRemaining' = [cooldownRemaining EXCEPT ![p] =
                           IF fires THEN markUsed(SkillOf(p)).cooldownRemaining ELSE @]
         /\ cheatLog' = IF fires THEN logCheat(cheatLog, p, "god_hand", roundNumber)
                        ELSE cheatLog
         /\ IF RequiresAction(p)
              THEN \* handleAsyncSkillAction(player, afterResult, diceResult)
                   /\ state' = "waiting_for_action"
                   /\ changes' = changeState(<<>>, "waiting_for_action")
                   /\ pendingAction' = [playerId |-> p, skillId |-> skill[p],
                                        originalDice |-> diceResult,
                                        opponentId |->
                                          IF skill[p] = "switch" THEN SwitchOpponent(p)
                                          ELSE IF skill[p] = "sniper" THEN SniperTarget(p)
                                          ELSE 0]
                   /\ actionTimer' = [armed |-> TRUE, playerId |-> p]
                   /\ resolved' = [playerId |-> p, count |-> 0, byTimer |-> FALSE]
                   /\ isWaitingForReroll' = [isWaitingForReroll EXCEPT ![p] = FALSE]
                   /\ UNCHANGED <<currentDice, currentHand, hasRolled, rerollCount,
                                  interruptTimer, window, finalized, blanks, autoLoss>>
              ELSE /\ finalizeRoll(p, diceResult)
                   /\ UNCHANGED <<pendingAction, actionTimer, resolved>>
  /\ reply' = Reply("roll_dice", p, 0, TRUE)
  /\ UNCHANGED <<players, playerOrder, roundNumber, currentDealerId, currentPlayerId,
                 dealerIndex, currentPlayerIndex, currentSet, setStartDealerIndex,
                 roundTimer, roundResults>>
  /\ UNCHANGED <<chips, currentBet, isDealer, rank, skill>>
  /\ UNCHANGED <<nextId, doubts, rotation, bankruptRound, exited>>

\* ------------------------------------------------------------------------
\* Pending ability decision
\* ------------------------------------------------------------------------
\* selection.myDiceIndex of a Switch decision, 0-based as in the source
\* (0 - 1 = undefined: the choice is not a selection object)
myDiceIndex(choice) ==
  CASE choice = "swap_0_0" -> 0
    [] choice = "swap_2_1" -> 2
    [] OTHER -> 0 - 1

\* selection.opponentDiceIndex of a Switch decision
opponentDiceIndex(choice) ==
  CASE choice = "swap_0_0" -> 0
    [] choice = "swap_2_1" -> 1
    [] OTHER -> 0 - 1

\* parseInt(choice) of a Flipper or Sniper decision (0 - 1 = NaN: the
\* choice, such as 'keep', does not start with a digit)
parseInt(choice) ==
  CASE choice = "0" -> 0
    [] choice = "1" -> 1
    [] choice = "2" -> 2
    [] OTHER -> 0 - 1

\* the value of an array element that was never assigned (undefined); the
\* comparator of sort leaves it behind every number and it equals only itself
Undefined == 7

\* n array elements that were never assigned
RECURSIVE Holes(_)
Holes(n) == IF n <= 0 THEN <<>> ELSE <<Undefined>> \o Holes(n - 1)

\* `const a = [...dice]; a[idx] = v`: an index past the end lengthens the
\* array, and NaN as index leaves its elements alone
SetAt(dice, idx, v) ==
  IF idx < 0 THEN dice
  ELSE IF idx < Len(dice) THEN [dice EXCEPT ![idx + 1] = v]
  ELSE dice \o Holes(idx - Len(dice)) \o <<v>>

\* the resolve closure of the pending action, called as
\* resolve(response.choice, newDice): GravityMaster's keeps or replaces the
\* dice and marks the ability used on either choice; Switch's does nothing
\* for 'skip' and for anything else marks the ability used, exchanges the two
\* selected dice (none when the indices are undefined) and logs the cheat;
\* Flipper's and Sniper's do nothing for 'skip' and for anything else mark
\* the ability used and write 7 - n to the holder's die, or 1 to the dealer's
\* die, at the index parseInt(choice)
resolve(choice, rolled) ==
  LET orig == pendingAction.originalDice
      oppDice == currentDice[pendingAction.opponentId]
      my == myDiceIndex(choice)
      opp == opponentDiceIndex(choice)
      idx == parseInt(choice)
  IN  IF pendingAction.skillId = "flipper"
        THEN IF choice = "skip"
               THEN [newDice |-> orig, markUsed |-> FALSE, logCheat |-> FALSE,
                     modifyOpponent |-> FALSE, opponentDice |-> <<>>]
               ELSE [newDice |-> IF idx >= 0 THEN SetAt(orig, idx, 7 - orig[idx + 1])
                                 ELSE orig,
                     markUsed |-> TRUE, logCheat |-> FALSE,
                     modifyOpponent |-> FALSE, opponentDice |-> <<>>]
      ELSE IF pendingAction.skillId = "sniper"
        THEN IF choice = "skip"
               THEN [newDice |-> orig, markUsed |-> FALSE, logCheat |-> FALSE,
                     modifyOpponent |-> FALSE, opponentDice |-> <<>>]
               ELSE [newDice |-> orig, markUsed |-> TRUE, logCheat |-> FALSE,
                     modifyOpponent |-> TRUE, opponentDice |-> SetAt(oppDice, idx, 1)]
      ELSE IF pendingAction.skillId = "switch"
        THEN IF choice = "skip"
               THEN [newDice |-> orig, markUsed |-> FALSE, logCheat |-> FALSE,
                     modifyOpponent |-> FALSE, opponentDice |-> <<>>]
               ELSE [newDice |-> IF my >= 0 /\ opp >= 0
                                   THEN [orig EXCEPT ![my + 1] = oppDice[opp + 1]]
                                   ELSE orig,
                     markUsed |-> TRUE, logCheat |-> TRUE, modifyOpponent |-> TRUE,
                     opponentDice |-> IF my >= 0 /\ opp >= 0
                                        THEN [oppDice EXCEPT ![opp + 1] = orig[my + 1]]
                                        ELSE oppDice]
        ELSE [newDice |-> IF choice = "reroll" THEN rolled ELSE orig,
              markUsed |-> TRUE, logCheat |-> FALSE,
              modifyOpponent |-> FALSE, opponentDice |-> <<>>]

\* the body of handleSkillAction after its two checks, for a well-formed
\* response; choice is response.choice, rolled the outcome of DiceEngine.roll()
ResolvePending(p, choice, rolled, byTimer) ==
  LET result == resolve(choice, rolled)
      target == pendingAction.opponentId
      \* applyOpponentDiceModification(result.modifyOpponent, ...)
      modifies == result.modifyOpponent /\ target \in players
      diceIn == IF modifies THEN [currentDice EXCEPT ![target] = result.opponentDice]
                ELSE currentDice
      \* DiceEngine.evaluateHand throws for a count other than three
      throws == modifies /\ Len(result.opponentDice) # 3
      handIn == IF modifies
                  THEN [currentHand EXCEPT ![target] = evaluateHand(result.opponentDice)]
                  ELSE currentHand
  IN  /\ actionTimer' = NoActionTimer
      /\ pendingAction' = NoPending
      /\ useCount' = [useCount EXCEPT ![p] =
                        IF result.markUsed THEN markUsed(SkillOf(p)).useCount ELSE @]
      /\ cooldownRemaining' = [cooldownRemaining EXCEPT ![p] =
                        IF result.markUsed THEN markUsed(SkillOf(p)).cooldownRemaining
                        ELSE @]
      /\ cheatLog' = IF result.logCheat
                       THEN logCheat(cheatLog, p, pendingAction.skillId, roundNumber)
                       ELSE cheatLog
      /\ resolved' = [resolved EXCEPT !.count = @ + 1, !.byTimer = byTimer]
      /\ IF throws
           THEN \* applyOpponentDiceModification stores the dice and throws in
                \* evaluateHand: finalizeRoll is not reached, the SKILL_ACTION
                \* handler answers with an error, and a rejection inside the
                \* timer callback is only logged (unhandledRejection)
                /\ currentDice' = diceIn
                /\ reply' = IF byTimer THEN NoReply
                            ELSE Reply("skill_action", p, 0, FALSE)
                /\ changes' = <<>>
                /\ UNCHANGED <<state, currentHand, hasRolled, rerollCount,
                               isWaitingForReroll, interruptTimer, window, finalized,
                               blanks, autoLoss>>
           ELSE /\ finalizeRollFrom(p, result.newDice, diceIn, handIn)
                /\ reply' = IF byTimer THEN NoReply
                            ELSE Reply("skill_action", p, 0, TRUE)
      /\ UNCHANGED <<players, playerOrder, roundNumber, currentDealerId,
                     currentPlayerId, dealerIndex, currentPlayerIndex, currentSet,
                     setStartDealerIndex, roundTimer, roundResults>>
      /\ UNCHANGED <<chips, currentBet, isDealer, rank, skill>>
      /\ UNCHANGED <<nextId, doubts, rotation, bankruptRound, exited>>

\* a pair of checks that lets any participant answer the pending action
skillActionRejectedUnlessPending(p) ==
  \/ state # "waiting_for_action"
  \/ pendingAction.playerId = 0

\* the two checks of handleSkillAction(playerId, response)
skillActionRejected(p) ==
  \/ state # "waiting_for_action"
  \/ pendingAction.playerId = 0
  \/ pendingAction.playerId # p

\* handleSkillAction(playerId, response) from the SKILL_ACTION socket
\* handler, stopped by one of its two checks (the response is not read)
HandleSkillActionRejected(p) ==
  /\ UNCHANGED call
  /\ p \in players
  /\ skillActionRejected(p)
  /\ reply' = Reply("skill_action", p, 0, FALSE)
  /\ changes' = <<>>
  /\ UNCHANGED <<roomVars, playerVars, skillVars>>
  /\ UNCHANGED <<nextId, doubts, blanks, autoLoss, finalized, window, resolved,
                 rotation, bankruptRound>>

\* handleSkillAction(playerId, response) from the SKILL_ACTION socket handler
HandleSkillAction(p, choice, rolled) ==
  /\ UNCHANGED call
  /\ p \in players
  /\ ~skillActionRejected(p)
  /\ IF choice = "undefined"
       THEN \* response is undefined: response.choice throws after clearTimeout
            /\ actionTimer' = NoActionTimer
            /\ reply' = Reply("skill_action", p, 0, FALSE)
            /\ changes' = <<>>
            /\ UNCHANGED <<state, players, playerOrder, roundNumber, currentDealerId,
                           currentPlayerId, dealerIndex, currentPlayerIndex,
                           currentSet, setStartDealerIndex, interruptTimer,
                           pendingAction, roundTimer, roundResults, cheatLog>>
            /\ UNCHANGED <<playerVars, skillVars>>
            /\ UNCHANGED <<nextId, doubts, blanks, autoLoss, finalized, window,
                           resolved, rotation, bankruptRound, exited>>
       ELSE /\ ResolvePending(p, choice, rolled, FALSE)

\* the callback of actionTimer: handleSkillActionTimeout(playerId)
ActionTimeout ==
  /\ UNCHANGED call
  /\ actionTimer.armed
  /\ IF /\ pendingAction.playerId # 0
        /\ pendingAction.playerId = actionTimer.playerId
        /\ state = "waiting_for_action"
       THEN /\ ResolvePending(actionTimer.playerId, "keep", <<>>, TRUE)
       ELSE /\ actionTimer' = NoActionTimer
            /\ reply' = NoReply
            /\ changes' = <<>>
            /\ UNCHANGED <<state, players, playerOrder, roundNumber, currentDealerId,
                           currentPlayerId, dealerIndex, currentPlayerIndex,
                           currentSet, setStartDealerIndex, interruptTimer,
                           pendingAction, roundTimer, roundResults, cheatLog>>
            /\ UNCHANGED <<playerVars, skillVars>>
            /\ UNCHANGED <<nextId, doubts, blanks, autoLoss, finalized, window,
                           resolved, rotation, bankruptRound, exited>>

\* ------------------------------------------------------------------------
\* Interrupt window
\* ------------------------------------------------------------------------
\* the callback of interruptTimer: endInterruptWindow(previousState, rolledPlayer)
EndInterruptWindow ==
  /\ UNCHANGED call
  /\ interruptTimer.armed
  /\ interruptTimer' = NoTimer
  /\ reply' = NoReply
  /\ IF isDealer[interruptTimer.rolledPlayer]
       THEN calculateResults(chips, currentPlayerIndex, <<>>, TRUE)
       ELSE nextPlayerRoll(chips)
  /\ window' = [window EXCEPT !.ends = @ + 1,
                  !.advances = IF currentPlayerIndex' = currentPlayerIndex + 1
                               THEN @ + 1 ELSE @]
  /\ UNCHANGED <<players, playerOrder, roundNumber, currentDealerId, dealerIndex,
                 currentSet, setStartDealerIndex, actionTimer, pendingAction, cheatLog>>
  /\ UNCHANGED <<currentBet, currentDice, currentHand, isDealer, hasRolled,
                 rerollCount, isWaitingForReroll, rank>>
  /\ UNCHANGED skillVars
  /\ UNCHANGED <<nextId, doubts, blanks, autoLoss, finalized, resolved, rotation, bankruptRound>>

\* a search of the ledger that also returns entries already resolved
FindCheatResolvedToo(log, targetId, round) ==
  LET hits == {i \in 1..Len(log) : /\ log[i].playerId = targetId
                                    /\ log[i].roundNumber = round}
  IN  IF hits = {} THEN 0 ELSE CHOOSE i \in hits : \A j \in hits : i <= j

\* CheatTracker.checkDoubt: the index of the entry cheatLog.find returns (0 = none)
FindCheat(log, targetId, round) ==
  LET hits == {i \in 1..Len(log) : /\ log[i].playerId = targetId
                                    /\ log[i].roundNumber = round
                                    /\ ~log[i].doubted}
  IN  IF hits = {} THEN 0 ELSE CHOOSE i \in hits : \A j \in hits : i <= j

\* CheatTracker.calculatePenalty(skillId).chipLoss
calculatePenalty(skillId) ==
  IF skillId = "god_hand" THEN GOD_HAND_LOSS ELSE DEFAULT_CHEAT_LOSS

\* a phase check that lets an accusation pass in every phase
doubtNeverRejected == FALSE

\* the phase check of handleDoubt(accuserId, targetId)
doubtRejected == state # "interrupt_window"

\* handleDoubt(accuserId, targetId) from the DOUBT socket handler, stopped by
\* its phase check
HandleDoubtRejected(a, t) ==
  /\ UNCHANGED call
  /\ a \in players
  /\ doubtRejected
  /\ reply' = DoubtReply(a, t, FALSE, FALSE)
  /\ changes' = <<>>
  /\ UNCHANGED <<roomVars, playerVars, skillVars>>
  /\ UNCHANGED <<nextId, doubts, blanks, autoLoss, finalized, window, resolved,
                 rotation, bankruptRound>>

\* handleDoubt(accuserId, targetId) from the DOUBT socket handler, in the
\* interrupt window; targetId is whatever non-empty id the client sent
HandleDoubt(a, t) ==
  /\ UNCHANGED call
  /\ ~doubtRejected
  /\ a \in players
  /\ doubts' = doubts + 1
  /\ interruptTimer' = NoTimer
  /\ LET hit == FindCheat(cheatLog, t, roundNumber)
         caught == hit # 0
         penalty == IF caught THEN calculatePenalty(cheatLog[hit].skillId)
                    ELSE FALSE_ACCUSATION_LOSS
         paid == IF caught
                   THEN [chips EXCEPT ![t] = @ - penalty,
                                      ![a] = @ + (penalty \div 2)]
                   ELSE [chips EXCEPT ![a] = @ - penalty]
     IN  /\ reply' = DoubtReply(a, t, t \in players, caught /\ t \in players)
         /\ cheatLog' = IF caught
                          THEN [cheatLog EXCEPT ![hit].doubted = TRUE,
                                                ![hit].doubterId = a]
                          ELSE cheatLog
         /\ IF t \notin players
              THEN \* target is undefined: target.chips throws in the broadcast
                   /\ chips' = paid
                   /\ changes' = <<>>
                   /\ UNCHANGED <<state, currentPlayerIndex, currentPlayerId,
                                  roundResults, roundTimer, window, exited>>
              ELSE /\ IF isDealer[t] THEN startPlayerRolls(paid)
                                     ELSE nextPlayerRoll(paid)
                   /\ window' = [window EXCEPT !.ends = @ + 1, !.accepted = @ + 1,
                                   !.advances = IF currentPlayerIndex' = currentPlayerIndex + 1
                                                THEN @ + 1 ELSE @]
  /\ UNCHANGED <<players, playerOrder, roundNumber, currentDealerId, dealerIndex,
                 currentSet, setStartDealerIndex, actionTimer, pendingAction>>
  /\ UNCHANGED <<currentBet, currentDice, currentHand, isDealer, hasRolled,
                 rerollCount, isWaitingForReroll, rank>>
  /\ UNCHANGED skillVars
  /\ UNCHANGED <<nextId, blanks, autoLoss, finalized, resolved, rotation, bankruptRound>>

\* ------------------------------------------------------------------------
\* Round end
\* ------------------------------------------------------------------------
\* a rotation that stops at the first candidate, bankrupt or not
RotationPathNoSkip(idx, c) == <<idx>>

\* the while loop of endRound: the indices the rotation steps on, from the
\* first candidate (old index + 1) to the one it stops at
RECURSIVE RotationPath(_, _)
RotationPath(idx, c) ==
  IF isBankrupt(c[playerOrder[idx + 1]])
    THEN <<idx>> \o RotationPath((idx + 1) % Len(playerOrder), c)
    ELSE <<idx>>

\* endGame(): rank = position in the stable sort by chips, descending
Ranking(c) ==
  [p \in Ids |->
     IF p \in players
       THEN 1 + Cardinality({q \in players : c[q] > c[p]})
              + Cardinality({q \in players : c[q] = c[p] /\ q < p})
       ELSE rank[p]]

\* the callback of the timer set by calculateResults: endRound()
EndRound ==
  /\ UNCHANGED call
  /\ roundTimer = "endRound"
  /\ reply' = NoReply
  /\ cooldownRemaining' = [p \in Ids |->
        IF p \in players /\ skill[p] # "null"
          THEN onRoundEnd(SkillOf(p)).cooldownRemaining ELSE cooldownRemaining[p]]
  /\ isDealer' = [p \in Ids |-> IF p \in players THEN FALSE ELSE isDealer[p]]
  /\ IF Cardinality({p \in players : ~isBankrupt(chips[p])}) <= 1
       THEN \* endGame()
            /\ state' = "game_end"
            /\ changes' = changeState(changeState(<<>>, "round_end"), "game_end")
            /\ rank' = Ranking(chips)
            /\ roundTimer' = "none"
            /\ rotation' = NoRotation
            /\ UNCHANGED <<dealerIndex, currentSet, chips, exited>>
       ELSE LET path == RotationPath((dealerIndex + 1) % Len(playerOrder), chips)
                newIndex == path[Len(path)]
                bonus == newIndex = setStartDealerIndex
                gone == {i \in 1..Len(path) : playerOrder[path[i] + 1] \notin players}
            IN  /\ state' = "round_end"
                /\ changes' = changeState(<<>>, "round_end")
                /\ IF gone # {}
                     THEN \* getPlayer(...) is undefined for a participant that
                          \* left: .isBankrupt() throws in the timer callback
                          /\ dealerIndex' = path[CHOOSE i \in gone : \A j \in gone : i <= j]
                          /\ exited' = TRUE
                          /\ roundTimer' = "none"
                          /\ UNCHANGED <<currentSet, chips, rotation, rank>>
                     ELSE /\ dealerIndex' = newIndex
                          /\ currentSet' = IF bonus THEN currentSet + 1 ELSE currentSet
                          /\ chips' = IF bonus
                                        THEN [p \in Ids |-> IF p \in players
                                                              THEN chips[p] + SET_BONUS_CHIPS
                                                              ELSE chips[p]]
                                        ELSE chips
                          /\ roundTimer' = "startNewRound"
                          /\ rotation' =
                               [round |-> roundNumber, from |-> dealerIndex, to |-> newIndex,
                                passedStart |-> \E i \in 1..Len(path) : path[i] = setStartDealerIndex,
                                skipped |-> {playerOrder[path[i] + 1] : i \in 1..(Len(path) - 1)},
                                bonus |-> bonus,
                                eligible |-> {p \in players : ~isBankrupt(chips[p])}]
                          /\ UNCHANGED <<rank, exited>>
  /\ UNCHANGED <<players, playerOrder, roundNumber, currentDealerId, currentPlayerId,
                 currentPlayerIndex, setStartDealerIndex, interruptTimer, actionTimer,
                 pendingAction, roundResults, cheatLog>>
  /\ UNCHANGED <<currentBet, currentDice, currentHand, hasRolled, rerollCount,
                 isWaitingForReroll>>
  /\ bankruptRound' = [p \in Ids |->
        IF p \in players /\ isBankrupt(chips[p]) /\ bankruptRound[p] = 0
          THEN roundNumber ELSE bankruptRound[p]]
  /\ UNCHANGED <<skill, useCount>>
  /\ UNCHANGED <<nextId, doubts, blanks, autoLoss, finalized, window, resolved>>

\* the callback of the timer set by endRound: startNewRound()
StartNewRound ==
  /\ UNCHANGED call
  /\ roundTimer = "startNewRound"
  /\ roundTimer' = "none"
  /\ reply' = NoReply
  /\ IF playerOrder[dealerIndex + 1] \in players
       THEN /\ startNewRound(playerOrder, isDealer, <<>>)
            /\ UNCHANGED exited
       ELSE \* getDealer() is undefined for a dealer that left:
            \* dealer.isDealer = true throws in the timer callback
            /\ roundNumber' = roundNumber + 1
            /\ roundResults' = <<>>
            /\ currentDealerId' = playerOrder[dealerIndex + 1]
            /\ exited' = TRUE
            /\ changes' = <<>>
            /\ UNCHANGED <<state, isDealer, currentBet, currentDice, currentHand,
                           hasRolled, rerollCount, blanks, autoLoss, finalized>>
  /\ UNCHANGED <<players, playerOrder, currentPlayerId, dealerIndex,
                 currentPlayerIndex, currentSet, setStartDealerIndex, interruptTimer,
                 actionTimer, pendingAction, cheatLog>>
  /\ UNCHANGED <<chips, isWaitingForReroll, rank>>
  /\ UNCHANGED skillVars
  /\ UNCHANGED <<nextId, doubts, window, resolved, rotation, bankruptRound>>

\* GameManager.leaveRoom(socketId) -> GameRoom.removePlayer(playerId): the
\* participant is deleted from this.players and from nothing else
LeaveRoom(p) ==
  /\ UNCHANGED call
  /\ p \in players
  /\ players' = players \ {p}
  /\ reply' = Reply("leave_room", p, 0, TRUE)
  /\ changes' = <<>>
  /\ UNCHANGED <<state, playerOrder, roundNumber, currentDealerId, currentPlayerId,
                 dealerIndex, currentPlayerIndex, currentSet, setStartDealerIndex,
                 interruptTimer, actionTimer, pendingAction, roundTimer,
                 roundResults, cheatLog, exited>>
  /\ UNCHANGED <<playerVars, skillVars>>
  /\ UNCHANGED <<nextId, doubts, blanks, autoLoss, finalized, window, resolved,
                 rotation, bankruptRound>>

\* ------------------------------------------------------------------------
\* Specifications
\* ------------------------------------------------------------------------
\* outcomes of DiceEngine.roll() tried by the turn-flow specification: one
\* blank, one normal hand and the 4-5-6 hand
DiceFlow == {<<2, 4, 6>>, <<2, 2, 5>>, <<4, 5, 6>>}
\* wagers tried by the turn-flow specification
BetsFlow == {1000}

\* The current configuration (no abilities): the lobby and the first round
Next ==
  \/ JoinRoom
  \/ StartGame(NoSkills)
  \/ \E p \in Ids, amount \in BetsFlow : PlaceBet(p, amount)
  \/ \E p \in Ids, rolled \in DiceFlow : RollDice(p, rolled)
  \/ EndInterruptWindow
  \/ /\ doubts < MaxDoubtsFlow
     /\ \E a \in players, t \in players \cup {UnknownId} : HandleDoubt(a, t)
  \/ EndRound

Spec == Init /\ [][Next]_vars

\* outcomes of DiceEngine.roll() tried by the dealer-rotation specification:
\* two normal hands, so that either side of a comparison can win
DiceRot == {<<2, 2, 5>>, <<2, 2, 3>>}
\* wagers tried by the dealer-rotation specification: the minimum and all
\* of the initial balance
BetsRot == {1000, 50000}

\* The current configuration (no abilities) over MaxRoundRot rounds, in
\* games where nobody submits an accusation
NextRot ==
  \/ JoinRoom
  \/ StartGame(NoSkills)
  \/ \E p \in Ids, amount \in BetsRot : PlaceBet(p, amount)
  \/ \E p \in Ids, rolled \in DiceRot : RollDice(p, rolled)
  \/ EndInterruptWindow
  \/ EndRound
  \/ /\ roundNumber < MaxRoundRot
     /\ StartNewRound

SpecRot == Init /\ [][NextRot]_vars

\* abilities handed out by the ability-decision specification: at most one
\* participant holds the GravityMaster (getRandomSkills hands out no
\* duplicates), the others hold none
SkillAssignments ==
  {assign \in [Ids -> {"null", "gravity_master"}] :
     Cardinality({p \in Ids : assign[p] = "gravity_master"}) <= 1}
\* what a client may send as response.choice (or no response object at all)
Choices == {"keep", "reroll", "undefined"}

\* Abilities enabled (the block of distributeSkills that hands them out):
\* the lobby and the first round, in games where nobody submits an accusation
NextSkill ==
  \/ JoinRoom
  \/ \E assign \in SkillAssignments : StartGame(assign)
  \/ \E p \in Ids, amount \in BetsFlow : PlaceBet(p, amount)
  \/ \E p \in Ids, rolled \in DiceFlow : RollDice(p, rolled)
  \/ \E p \in Ids, choice \in Choices, rolled \in DiceFlow :
       HandleSkillAction(p, choice, rolled)
  \/ ActionTimeout
  \/ EndInterruptWindow
  \/ EndRound

SpecSkill == Init /\ [][NextSkill]_vars

\* outcomes of DiceEngine.roll() tried by the payout specification: a hand
\* of each category that carries its own pair of multipliers
DicePay == {<<1, 1, 1>>, <<4, 5, 6>>, <<2, 2, 5>>, <<1, 2, 3>>}
\* wagers tried by the payout specification: the minimum and an odd amount
BetsPay == {1000, 1001}
\* abilities handed out by the payout specification: at most one participant
\* holds the Banker (getRandomSkills hands out no duplicates)
PayAssignments ==
  {assign \in [Ids -> {"null", "banker"}] :
     Cardinality({p \in Ids : assign[p] = "banker"}) <= 1}

\* The lobby and the first round with the payouts of every hand category, in
\* games where nobody submits an accusation
NextPay ==
  \/ JoinRoom
  \/ \E assign \in PayAssignments : StartGame(assign)
  \/ \E p \in Ids, amount \in BetsPay : PlaceBet(p, amount)
  \/ \E p \in Ids, rolled \in DicePay : RollDice(p, rolled)
  \/ EndInterruptWindow
  \/ EndRound

SpecPay == Init /\ [][NextPay]_vars

\* abilities handed out by the covert-ability specification: at most one
\* GodHand and at most one Switch (getRandomSkills hands out no duplicates),
\* the others hold none
CheatAssignments ==
  {assign \in [Ids -> {"null", "god_hand", "switch"}] :
     /\ Cardinality({p \in Ids : assign[p] = "god_hand"}) <= 1
     /\ Cardinality({p \in Ids : assign[p] = "switch"}) <= 1}
\* outcomes of DiceEngine.roll() tried by the covert-ability specification
DiceCheat == {<<2, 2, 5>>}
\* what a client may send as response.choice to a Switch decision: decline,
\* or one of two selections
ChoicesCheat == {"skip", "swap_0_0", "swap_2_1"}

\* Covert abilities enabled, over MaxRoundCheat rounds, with up to
\* MaxDoubtsCheat accusations by any participant against any id
NextCheat ==
  \/ JoinRoom
  \/ \E assign \in CheatAssignments : StartGame(assign)
  \/ \E p \in Ids, amount \in BetsFlow : PlaceBet(p, amount)
  \/ \E p \in Ids, rolled \in DiceCheat : RollDice(p, rolled)
  \/ \E p \in Ids, choice \in ChoicesCheat, rolled \in DiceCheat :
       HandleSkillAction(p, choice, rolled)
  \/ ActionTimeout
  \/ EndInterruptWindow
  \/ /\ doubts < MaxDoubtsCheat
     /\ \E a \in players, t \in players \cup {UnknownId} : HandleDoubt(a, t)
  \/ EndRound
  \/ /\ roundNumber < MaxRoundCheat
     /\ StartNewRound

SpecCheat == Init /\ [][NextCheat]_vars

\* outcomes of DiceEngine.roll() tried by the rejected-call specification
DiceReject == {<<2, 2, 5>>}
\* what a client may send as response.choice in the rejected-call specification
ChoicesReject == {"keep"}

\* GravityMaster enabled, the lobby and the first round, where every
\* participant may submit an accusation or a decision at any moment
NextReject ==
  \/ JoinRoom
  \/ \E assign \in SkillAssignments : StartGame(assign)
  \/ \E p \in Ids, amount \in BetsRot : PlaceBet(p, amount)
  \/ \E p \in Ids, rolled \in DiceReject : RollDice(p, rolled)
  \/ \E p \in Ids, choice \in ChoicesReject, rolled \in DiceReject :
       HandleSkillAction(p, choice, rolled)
  \/ \E p \in Ids : HandleSkillActionRejected(p)
  \/ ActionTimeout
  \/ EndInterruptWindow
  \/ /\ doubts < MaxDoubtsFlow
     /\ \E a \in players, t \in players \cup {UnknownId} : HandleDoubt(a, t)
  \/ \E a \in players, t \in players \cup {UnknownId} : HandleDoubtRejected(a, t)
  \/ EndRound

SpecReject == Init /\ [][NextReject]_vars

\* abilities handed out by the hook specification: any of the abilities
\* whose hooks ask for a decision, none of them twice
HookAssignments ==
  {assign \in [Ids -> {"null", "gravity_master", "mosaic", "fourth_dimension", "switch"}] :
     \A p, q \in Ids : (assign[p] = assign[q] /\ assign[p] # "null") => p = q}
\* outcomes of DiceEngine.roll() tried by the hook specification
DiceHook == {<<2, 2, 5>>}
\* what a client may send as response.choice in the hook specification
ChoicesHook == {"keep", "reroll", "skip", "swap_2_1"}

\* Abilities with decision hooks enabled: the lobby and the first round, in
\* games where nobody submits an accusation
NextHook ==
  \/ JoinRoom
  \/ \E assign \in HookAssignments : StartGame(assign)
  \/ \E p \in Ids, amount \in BetsFlow : PlaceBet(p, amount)
  \/ \E p \in Ids, rolled \in DiceHook : RollDice(p, rolled)
  \/ \E p \in Ids, choice \in ChoicesHook, rolled \in DiceHook :
       HandleSkillAction(p, choice, rolled)
  \/ ActionTimeout
  \/ EndInterruptWindow
  \/ EndRound

SpecHook == Init /\ [][NextHook]_vars

\* abilities handed out by the hand-override specification: at most one
\* participant holds the Revolutionary
RevAssignments ==
  {assign \in [Ids -> {"null", "revolutionary"}] :
     Cardinality({p \in Ids : assign[p] = "revolutionary"}) <= 1}
\* outcomes of DiceEngine.roll() tried by the hand-override specification:
\* the 1-2-3 hand in two orders, a normal hand and triple-ones
DiceRev == {<<1, 2, 3>>, <<3, 1, 2>>, <<2, 2, 5>>, <<1, 1, 1>>}

\* Revolutionary enabled: the lobby and the first round, in games where
\* nobody submits an accusation
NextRev ==
  \/ JoinRoom
  \/ \E assign \in RevAssignments : StartGame(assign)
  \/ \E p \in Ids, amount \in BetsFlow : PlaceBet(p, amount)
  \/ \E p \in Ids, rolled \in DiceRev : RollDice(p, rolled)
  \/ EndInterruptWindow
  \/ EndRound

SpecRev == Init /\ [][NextRev]_vars

\* outcomes of DiceEngine.roll() tried by the call-guard specification:
\* two normal hands, so that either side of a comparison can win
DiceGuard == {<<2, 2, 5>>, <<2, 2, 3>>}
\* wagers tried by the call-guard specification: one below the minimum, the
\* minimum, all of the initial balance and one above it
BetsGuard == {999, 1000, 50000, 50001}

\* The current configuration (no abilities) over MaxRoundGuard rounds, where
\* every id may send PLACE_BET and ROLL_DICE at any moment and nobody
\* submits an accusation
NextGuard ==
  \/ JoinRoom
  \/ StartGame(NoSkills)
  \/ \E p \in Ids, amount \in BetsGuard : PlaceBet(p, amount)
  \/ \E p \in Ids, amount \in BetsGuard : PlaceBetRejected(p, amount)
  \/ \E p \in Ids, rolled \in DiceGuard : RollDice(p, rolled)
  \/ \E p \in Ids : RollDiceRejected(p)
  \/ EndInterruptWindow
  \/ EndRound
  \/ /\ roundNumber < MaxRoundGuard
     /\ StartNewRound

SpecGuard == Init /\ [][NextGuard]_vars

\* outcomes of DiceEngine.roll() tried by the roll-turn specification: a
\* blank and a normal hand
DiceTurn == {<<2, 4, 6>>, <<2, 2, 5>>}
\* what a client may send as response.choice in the roll-turn specification
ChoicesTurn == {"keep", "reroll"}

\* GravityMaster enabled, the lobby and the first round, where every id may
\* send ROLL_DICE at any moment and nobody submits an accusation
NextTurn ==
  \/ JoinRoom
  \/ \E assign \in SkillAssignments : StartGame(assign)
  \/ \E p \in Ids, amount \in BetsFlow : PlaceBet(p, amount)
  \/ \E p \in Ids, rolled \in DiceTurn : RollDice(p, rolled)
  \/ \E p \in Ids : RollDiceRejected(p)
  \/ \E p \in Ids, choice \in ChoicesTurn, rolled \in DiceTurn :
       HandleSkillAction(p, choice, rolled)
  \/ ActionTimeout
  \/ EndInterruptWindow
  \/ EndRound

SpecTurn == Init /\ [][NextTurn]_vars

\* outcomes of DiceEngine.roll() tried by the leave specification: two
\* normal hands
DiceLeave == {<<2, 2, 5>>, <<2, 2, 3>>}
\* wagers tried by the leave specification
BetsLeave == {1000}

\* The current configuration (no abilities) over MaxRoundRot rounds, in
\* games where participants leave at any moment and nobody submits an
\* accusation; nothing runs once the process has ended
NextLeave ==
  \/ ~exited /\ JoinRoom
  \/ ~exited /\ StartGame(NoSkills)
  \/ ~exited /\ \E p \in Ids, amount \in BetsLeave : PlaceBet(p, amount)
  \/ ~exited /\ \E p \in Ids, rolled \in DiceLeave : RollDice(p, rolled)
  \/ ~exited /\ EndInterruptWindow
  \/ ~exited /\ EndRound
  \/ ~exited /\ roundNumber < MaxRoundRot /\ StartNewRound
  \/ ~exited /\ \E p \in Ids : LeaveRoom(p)

SpecLeave == Init /\ [][NextLeave]_vars

\* outcomes of DiceEngine.roll() tried by the roll-order specification
DiceOrder == {<<2, 2, 5>>, <<2, 2, 3>>}

\* The current configuration (no abilities) over MaxRoundOrder rounds, with
\* wagers, rolls, up to MaxDoubtsOrder accusations and participants that
\* leave at any moment; nothing runs once the process has ended
NextOrder ==
  \/ ~exited /\ JoinRoom
  \/ ~exited /\ StartGame(NoSkills)
  \/ ~exited /\ \E p \in Ids, amount \in BetsFlow : PlaceBet(p, amount)
  \/ ~exited /\ \E p \in Ids, rolled \in DiceOrder : RollDice(p, rolled)
  \/ ~exited /\ EndInterruptWindow
  \/ ~exited /\ doubts < MaxDoubtsOrder
       /\ \E a \in players, t \in players : HandleDoubt(a, t)
  \/ ~exited /\ EndRound
  \/ ~exited /\ roundNumber < MaxRoundOrder /\ StartNewRound
  \/ ~exited /\ \E p \in Ids : LeaveRoom(p)

SpecOrder == Init /\ [][NextOrder]_vars

\* abilities handed out by the ledger specification: the two covert ones
\* (isCheat) and GravityMaster, none of them twice
LedgerAssignments ==
  {assign \in [Ids -> {"null", "god_hand", "switch", "gravity_master"}] :
     \A p, q \in Ids : (assign[p] = assign[q] /\ assign[p] # "null") => p = q}
\* outcomes of DiceEngine.roll() tried by the ledger specification
DiceLedger == {<<2, 2, 5>>}
\* what a client may send as response.choice in the ledger specification:
\* decline or a selection for Switch, keep for GravityMaster
ChoicesLedger == {"skip", "swap_2_1", "keep"}

\* Covert abilities and GravityMaster enabled, over MaxRoundLedger rounds,
\* with up to MaxDoubtsLedger accusations
NextLedger ==
  \/ JoinRoom
  \/ \E assign \in LedgerAssignments : StartGame(assign)
  \/ \E p \in Ids, amount \in BetsFlow : PlaceBet(p, amount)
  \/ \E p \in Ids, rolled \in DiceLedger : RollDice(p, rolled)
  \/ \E p \in Ids, choice \in ChoicesLedger, rolled \in DiceLedger :
       HandleSkillAction(p, choice, rolled)
  \/ ActionTimeout
  \/ EndInterruptWindow
  \/ /\ doubts < MaxDoubtsLedger
     /\ \E a \in players, t \in players : HandleDoubt(a, t)
  \/ EndRound
  \/ /\ roundNumber < MaxRoundLedger
     /\ StartNewRound

SpecLedger == Init /\ [][NextLedger]_vars

\* abilities handed out by the use-ceiling specification: GodHand and
\* GravityMaster (each with a ceiling of one use), none twice
UsesAssignments ==
  {assign \in [Ids -> {"null", "god_hand", "gravity_master"}] :
     \A p, q \in Ids : (assign[p] = assign[q] /\ assign[p] # "null") => p = q}
\* outcomes of DiceEngine.roll() tried by the use-ceiling specification: a
\* blank and a normal hand
DiceUses == {<<2, 4, 6>>, <<2, 2, 5>>}
\* what a client may send as response.choice in the use-ceiling specification
ChoicesUses == {"keep", "reroll"}

\* the ability instances whose methods are called on their own: a ceiling
\* (or none), a cooldown, and a use counter and remaining cooldown within them
SkillInstances ==
  {s \in [maxUses : {0 - 1} \cup (1..MaxCeiling), cooldown : 0..MaxCooldown,
          useCount : 0..MaxCeiling, cooldownRemaining : 0..MaxCooldown] :
     /\ s.maxUses # 0 - 1 => s.useCount <= s.maxUses
     /\ s.cooldownRemaining <= s.cooldown}

\* the calls on an ability instance tried on their own
SkillCalls ==
  {[fn |-> f, done |-> FALSE, skill |-> s] :
     f \in {"beforeRoll", "onRoundEnd"}, s \in SkillInstances}

InitUses == InitRoom /\ call \in {NoCall} \cup SkillCalls

\* a hook of an ability instance on its own, as in GodHand.beforeRoll: it
\* returns without effect unless canUse(), and otherwise calls markUsed()
SkillBeforeRoll ==
  /\ call.fn = "beforeRoll" /\ ~call.done
  /\ call' = [fn |-> "beforeRoll", done |-> TRUE, skill |-> call.skill,
              override |-> skillCanUse(call.skill),
              result |-> IF skillCanUse(call.skill) THEN markUsed(call.skill)
                         ELSE call.skill]
  /\ UNCHANGED <<roomVars, playerVars, skillVars, histVars>>

\* BaseSkill.onRoundEnd() of an ability instance on its own
SkillOnRoundEnd ==
  /\ call.fn = "onRoundEnd" /\ ~call.done
  /\ call' = [fn |-> "onRoundEnd", done |-> TRUE, skill |-> call.skill,
              override |-> FALSE, result |-> onRoundEnd(call.skill)]
  /\ UNCHANGED <<roomVars, playerVars, skillVars, histVars>>

\* GodHand and GravityMaster enabled over MaxRoundUses rounds, in
\* games where nobody submits an accusation; and the methods of BaseSkill
\* called once on an instance of their own
NextUses ==
  \/ call = NoCall /\ JoinRoom
  \/ call = NoCall /\ \E assign \in UsesAssignments : StartGame(assign)
  \/ call = NoCall /\ \E p \in Ids, amount \in BetsFlow : PlaceBet(p, amount)
  \/ call = NoCall /\ \E p \in Ids, rolled \in DiceUses : RollDice(p, rolled)
  \/ call = NoCall /\ \E p \in Ids, choice \in ChoicesUses, rolled \in DiceUses :
       HandleSkillAction(p, choice, rolled)
  \/ call = NoCall /\ ActionTimeout
  \/ call = NoCall /\ EndInterruptWindow
  \/ call = NoCall /\ EndRound
  \/ call = NoCall /\ roundNumber < MaxRoundUses /\ StartNewRound
  \/ SkillBeforeRoll
  \/ SkillOnRoundEnd

SpecUses == InitUses /\ [][NextUses]_vars

\* SkillRegistry.getSkillIds(): the keys of this.skills in the order of
\* registerDefaults()
getSkillIds ==
  <<"god_hand", "switch", "gravity_master", "sniper", "flipper",
    "fourth_dimension", "revolutionary", "banker", "bomber", "mosaic">>

\* the elements of a sequence
Range(seq) == {seq[i] : i \in 1..Len(seq)}

\* candidates that include the identifiers already drawn
candidateIdsAll(availableIds, allowDuplicates, selected) == availableIds

\* candidateIds of one pass of the loop of getRandomSkills: availableIds, or
\* availableIds.filter(id => !usedIds.has(id))
candidateIds(availableIds, allowDuplicates, selected) ==
  IF allowDuplicates THEN availableIds
  ELSE LET unused(id) == id \notin Range(selected)
       IN  SelectSeq(availableIds, unused)

\* the passes i .. count - 1 of the loop of getRandomSkills: every list of
\* identifiers it can end with, one per value of
\* Math.floor(Math.random() * candidateIds.length)
RECURSIVE SelectSkills(_, _, _, _, _)
SelectSkills(i, count, availableIds, allowDuplicates, selected) ==
  LET candidates == candidateIds(availableIds, allowDuplicates, selected)
  IN  IF ~(i < count) \/ Len(candidates) = 0 THEN {selected}
      ELSE UNION {SelectSkills(i + 1, count, availableIds, allowDuplicates,
                               Append(selected, candidates[randomIndex + 1])) :
                    randomIndex \in 0..(Len(candidates) - 1)}

\* SkillRegistry.getRandomSkills(count, {allowDuplicates, excludeIds}): the
\* identifiers of the instances of every list it can return
getRandomSkills(count, allowDuplicates, excludeIds) ==
  LET included(id) == id \notin excludeIds
      availableIds == SelectSeq(getSkillIds, included)
      capped == IF ~allowDuplicates /\ count > Len(availableIds)
                  THEN Len(availableIds) ELSE count
  IN  SelectSkills(0, capped, availableIds, allowDuplicates, <<>>)

\* the identifiers left available by the excludeIds tried: all ten, or at
\* most three of them
PoolsTried ==
  {Range(getSkillIds)} \cup SUBSET {"god_hand", "switch", "gravity_master"}

\* the calls of getRandomSkills tried on their own
RegistryCalls ==
  {[fn |-> "getRandomSkills", done |-> FALSE, count |-> n, allowDuplicates |-> d,
    excludeIds |-> Range(getSkillIds) \ pool] :
     n \in 0..MaxCount, d \in BOOLEAN, pool \in PoolsTried}

InitRegistry == InitRoom /\ call \in RegistryCalls

\* SkillRegistry.getRandomSkills(count, options) returns
GetRandomSkills ==
  /\ call.fn = "getRandomSkills" /\ ~call.done
  /\ \E selectedSkills \in getRandomSkills(call.count, call.allowDuplicates,
                                           call.excludeIds) :
       call' = [fn |-> "getRandomSkills", done |-> TRUE, count |-> call.count,
                allowDuplicates |-> call.allowDuplicates,
                excludeIds |-> call.excludeIds, result |-> selectedSkills]
  /\ UNCHANGED <<roomVars, playerVars, skillVars, histVars>>

\* SkillRegistry.getRandomSkills called once, for every random draw
NextRegistry == GetRandomSkills

SpecRegistry == InitRegistry /\ [][NextRegistry]_vars

\* the sockets that try to join in the lobby specification
Sockets == 1..MaxSockets
\* outcomes of DiceEngine.roll() tried by the lobby specification
DiceLobby == {<<2, 2, 5>>}

\* The lobby filled by up to MaxSockets sockets, where START_GAME and
\* JOIN_ROOM may arrive at any moment, and the first round of the games
\* (current configuration, no abilities) that start with at most MaxIds
\* participants
NextLobby ==
  \/ JoinRoomOf(Sockets)
  \/ JoinRoomRejected(Sockets)
  \/ players \subseteq Ids /\ StartGame(NoSkills)
  \/ StartGameRejected
  \/ \E p \in Ids, amount \in BetsFlow : PlaceBet(p, amount)
  \/ \E p \in Ids, rolled \in DiceLobby : RollDice(p, rolled)
  \/ EndInterruptWindow
  \/ EndRound

SpecLobby == Init /\ [][NextLobby]_vars

\* abilities handed out by the decision specification: the four abilities
\* whose after-roll hook asks for a decision, none of them twice
DecideAssignments ==
  {assign \in [Ids -> {"null", "gravity_master", "flipper", "sniper", "switch"}] :
     \A p, q \in Ids : (assign[p] = assign[q] /\ assign[p] # "null") => p = q}
\* outcomes of DiceEngine.roll() tried by the decision specification
DiceDecide == {<<2, 2, 5>>, <<3, 3, 4>>}
\* what a client may send as response.choice in the decision specification:
\* the two ways to decline, a reroll, a die index and a Switch selection
ChoicesDecide == {"keep", "skip", "reroll", "0", "swap_2_1"}

\* The four abilities with a decision after the roll enabled: the lobby and
\* the first round, in games where nobody submits an accusation
NextDecide ==
  \/ JoinRoom
  \/ \E assign \in DecideAssignments : StartGame(assign)
  \/ \E p \in Ids, amount \in BetsFlow : PlaceBet(p, amount)
  \/ \E p \in Ids, rolled \in DiceDecide : RollDice(p, rolled)
  \/ \E p \in Ids, choice \in ChoicesDecide, rolled \in DiceDecide :
       HandleSkillAction(p, choice, rolled)
  \/ ActionTimeout
  \/ EndInterruptWindow
  \/ EndRound

SpecDecide == Init /\ [][NextDecide]_vars

\* outcomes of DiceEngine.roll() tried by the automatic-loss specification:
\* a blank, the 1-2-3 hand and a normal hand
DiceAuto == {<<2, 4, 6>>, <<1, 2, 3>>, <<2, 2, 5>>}

\* The current configuration (no abilities): the lobby and the first round
\* with blanks up to the automatic loss, in games where nobody submits an
\* accusation
NextAuto ==
  \/ JoinRoom
  \/ StartGame(NoSkills)
  \/ \E p \in Ids, amount \in BetsFlow : PlaceBet(p, amount)
  \/ \E p \in Ids, rolled \in DiceAuto : RollDice(p, rolled)
  \/ EndInterruptWindow
  \/ EndRound

SpecAuto == Init /\ [][NextAuto]_vars

\* accusations per game tried by the round-termination specification
MaxDoubtsLive == 1
\* outcomes of DiceEngine.roll() tried by the round-termination
\* specification: a blank (rerolled up to the automatic loss) and a normal hand
DiceLive == {<<2, 4, 6>>, <<2, 2, 5>>}

\* The current configuration (no abilities): the lobby and the first round,
\* with accusations by any participant against any id
NextLive ==
  \/ JoinRoom
  \/ StartGame(NoSkills)
  \/ \E p \in Ids, amount \in BetsFlow : PlaceBet(p, amount)
  \/ \E p \in Ids, rolled \in DiceLive : RollDice(p, rolled)
  \/ EndInterruptWindow
  \/ /\ doubts < MaxDoubtsLive
     /\ \E a \in players, t \in players \cup {UnknownId} : HandleDoubt(a, t)
  \/ EndRound

\* Scheduling: a participant whose roll the session accepts eventually
\* rolls, and an armed timer (setTimeout of the interrupt window, setTimeout
\* of calculateResults) eventually runs its callback. Nothing forces a
\* participant to join, start, wager or accuse.
FairLive ==
  /\ \A p \in Ids : WF_vars(\E rolled \in DiceLive : RollDice(p, rolled))
  /\ WF_vars(EndInterruptWindow)
  /\ WF_vars(EndRound)

SpecLive == Init /\ [][NextLive]_vars /\ FairLive

\* every outcome of DiceEngine.roll(): three values of Math.floor(Math.random() * 6) + 1
Triples == (1..6) \X (1..6) \X (1..6)
\* the hands evaluateHand returns for them
EngineHands == {evaluateHand(d) : d \in Triples}

\* the calls of the static functions of DiceEngine tried on their own
EngineCalls ==
  {[fn |-> "evaluateHand", done |-> FALSE, dice |-> d] : d \in Triples}
  \cup {[fn |-> "compareHands", done |-> FALSE, hand1 |-> h1, hand2 |-> h2,
         forceResolution |-> f] : h1 \in EngineHands, h2 \in EngineHands, f \in BOOLEAN}
  \cup {[fn |-> "getMultiplier", done |-> FALSE, hand |-> h, isDealer |-> b] :
         h \in EngineHands, b \in BOOLEAN}

InitEngine == InitRoom /\ call \in EngineCalls

\* DiceEngine.evaluateHand(dice) returns
EvaluateHand ==
  /\ call.fn = "evaluateHand" /\ ~call.done
  /\ call' = [fn |-> "evaluateHand", done |-> TRUE, dice |-> call.dice,
              result |-> evaluateHand(call.dice)]
  /\ UNCHANGED <<roomVars, playerVars, skillVars, histVars>>

\* DiceEngine.compareHands(hand1, hand2, forceResolution) returns
CompareHands ==
  /\ call.fn = "compareHands" /\ ~call.done
  /\ call' = [fn |-> "compareHands", done |-> TRUE, hand1 |-> call.hand1,
              hand2 |-> call.hand2, forceResolution |-> call.forceResolution,
              result |-> compareHands(call.hand1, call.hand2, call.forceResolution)]
  /\ UNCHANGED <<roomVars, playerVars, skillVars, histVars>>

\* DiceEngine.getMultiplier(hand, isDealer) returns
GetMultiplier ==
  /\ call.fn = "getMultiplier" /\ ~call.done
  /\ call' = [fn |-> "getMultiplier", done |-> TRUE, hand |-> call.hand,
              isDealer |-> call.isDealer,
              result |-> getMultiplier(call.hand, call.isDealer)]
  /\ UNCHANGED <<roomVars, playerVars, skillVars, histVars>>

\* The static functions of DiceEngine, each called once on arguments drawn
\* from all dice triples and all hands
NextEngine ==
  \/ EvaluateHand
  \/ CompareHands
  \/ GetMultiplier

SpecEngine == InitEngine /\ [][NextEngine]_vars

\* ------------------------------------------------------------------------
\* Properties
\* ------------------------------------------------------------------------
\* s is an initial segment of t
IsPrefix(s, t) == Len(s) <= Len(t) /\ \A i \in 1..Len(s) : s[i] = t[i]

\* the round's roll sequence: the roll order with the dealer removed, then
\* the dealer
RollSequence == OrderNonDealers(playerOrder, currentDealerId) \o <<currentDealerId>>

\* C1: within one round the reroll counter of a participant stays at most 3,
\* a blank result among its first three leaves it waiting for a reroll, and
\* a roll is recorded as automatic loss only on its fourth blank of the round.
C1_AutoLossOnFourthBlank ==
  \A p \in players :
    /\ rerollCount[p] <= MAX_REROLL_ATTEMPTS
    /\ autoLoss[p] => blanks[p] > MAX_REROLL_ATTEMPTS
    /\ (currentHand[p].type = "menashi" /\ blanks[p] \in 1..MAX_REROLL_ATTEMPTS)
         => isWaitingForReroll[p]

\* what the expiry of the window's timer produces from the current state:
\* result calculation after the dealer's roll, otherwise the next turn
AfterTimer(roller) ==
  LET nonDealers == OrderNonDealers(playerOrder, currentDealerId)
      idx == currentPlayerIndex + 1
  IN  IF isDealer[roller]
        THEN [state |-> "result", index |-> currentPlayerIndex,
              playerId |-> currentPlayerId]
      ELSE IF idx >= Len(nonDealers)
        THEN [state |-> "dealer_roll", index |-> idx, playerId |-> currentPlayerId]
      ELSE [state |-> "player_roll", index |-> idx, playerId |-> nonDealers[idx + 1]]

\* C2: every accepted accusation leaves the session in the phase, and with
\* the current roller, that the expiry of the window's timer would have
\* produced for the roller whose roll opened the window, whichever
\* participant it names as target.
C2_AccusationResumesAsTimer ==
  [][window'.accepted = window.accepted + 1
       => [state |-> state', index |-> currentPlayerIndex',
           playerId |-> currentPlayerId'] = AfterTimer(window.roller)]_vars

\* C3: in every round the rolls that open an interrupt window follow the
\* roll sequence (non-dealers in roll order, then the dealer), one per
\* participant, and the round reaches its result with exactly that sequence.
C3_OneFinalRollEachInOrder ==
  roundNumber >= 1 =>
    /\ IsPrefix(finalized, RollSequence)
    /\ state \in {"result", "round_end", "game_end"} => finalized = RollSequence

\* C4: the continuation of a pending ability decision runs exactly once: a
\* recorded pending action has not been resolved yet and has its decision
\* timer armed (so the timer resolves it when no choice arrives), and once
\* it is consumed it has been resolved once and no decision timer is left
\* to fire for it.
C4_ResolveExactlyOnce ==
  /\ resolved.count <= 1
  /\ pendingAction.playerId # 0 => resolved.count = 0 /\ actionTimer.armed
  /\ pendingAction.playerId = 0 =>
       /\ ~actionTimer.armed
       /\ resolved.playerId # 0 => resolved.count = 1

\* C5: the firing of the decision timer on a pending action takes the
\* session out of waiting_for_action, into the roller's interrupt window,
\* whatever dice the fallback keeps.
C5_TimeoutLeavesWaitingForAction ==
  [][(resolved'.count = resolved.count + 1 /\ resolved'.byTimer)
       => state' = "interrupt_window" /\ interruptTimer'.armed]_vars

\* C6: each interrupt window ends exactly once: while the window is open it
\* has not ended and its timer is armed (so it ends by expiry when no
\* accusation is accepted), outside a window no window timer is left to
\* fire, and per window at most one ending, one accepted accusation and one
\* advance of the current-roller index happen.
C6_WindowEndsExactlyOnce ==
  /\ window.ends <= 1 /\ window.accepted <= 1 /\ window.advances <= 1
  /\ state = "interrupt_window" => window.ends = 0 /\ interruptTimer.armed
  /\ state # "interrupt_window" => ~interruptTimer.armed

\* the multiplier table of the payout, by role
RoleMultiplier(type, role) ==
  CASE type = "pinzoro" -> IF role = "dealer" THEN 5 ELSE 3
    [] type = "arashi"  -> 3
    [] type = "shigoro" -> 2
    [] type = "hifumi"  -> 2
    [] OTHER            -> 1

\* the amount C7 states for non-dealer p against dealer d
StatedTransfer(p, d, dealerWins) ==
  LET ownNum == IF skill[p] = "banker" THEN (IF dealerWins THEN 6 ELSE 3) ELSE 1
      ownDen == IF skill[p] = "banker" THEN (IF dealerWins THEN 5 ELSE 2) ELSE 1
      houseNum == IF skill[d] = "banker" THEN (IF dealerWins THEN 3 ELSE 6) ELSE 1
      houseDen == IF skill[d] = "banker" THEN (IF dealerWins THEN 2 ELSE 5) ELSE 1
  IN  (currentBet[p] * RoleMultiplier(currentHand[d].type, "dealer")
         * RoleMultiplier(currentHand[p].type, "player") * ownNum * houseNum)
        \div (ownDen * houseDen)

RECURSIVE SumOver(_, _)
SumOver(f, S) ==
  IF S = {} THEN 0
  ELSE LET x == CHOOSE y \in S : TRUE IN f[x] + SumOver(f, S \ {x})

C8_FullRotationCompletesSet ==
  [][/\ (state # "round_end" /\ state' = "round_end" /\ rotation'.passedStart)
          => /\ currentSet' = currentSet + 1
             /\ \A p \in players : chips'[p] = chips[p] + SET_BONUS_CHIPS
     /\ currentSet' # currentSet
          => state' = "round_end" /\ rotation'.passedStart
               /\ currentSet' = currentSet + 1]_vars

\* the first participant after index from, in cyclic roll order, that is in S
FirstAfter(from, S) ==
  LET n == Len(playerOrder)
      at(k) == playerOrder[((from + k) % n) + 1]
      k == CHOOSE k \in 1..n : at(k) \in S /\ \A j \in 1..(k - 1) : at(j) \notin S
  IN  at(k)

\* C9 as stated: at the start of every round after the first the dealer is
\* the first participant after the previous dealer, in cyclic roll order,
\* whose balance at that moment is greater than 0.
C9_DealerIsNextWithPositiveBalance ==
  (state = "betting" /\ roundNumber >= 2) =>
    /\ currentDealerId = FirstAfter(rotation.from, {p \in players : chips[p] > 0})
    /\ chips[currentDealerId] > 0

\* C9 amended: at the start of every round after the first the dealer is
\* the first participant after the previous dealer, in cyclic roll order,
\* whose balance was greater than 0 when the round end checked it, before
\* any set-completion bonus was credited; the dealer's balance at the start
\* of the round is greater than 0.
C9_DealerIsNextSolventAtRoundEnd ==
  (state = "betting" /\ roundNumber >= 2) =>
    /\ currentDealerId = FirstAfter(rotation.from, rotation.eligible)
    /\ chips[currentDealerId] > 0

\* a round has started whose dealer rotation passed over a participant that
\* the set-completion bonus of the same round end lifted above 0
C9_Witness ==
  /\ state = "betting" /\ roundNumber >= 2
  /\ rotation.bonus
  /\ \E p \in rotation.skipped : chips[p] > 0

\* the participants found bankrupt at the end of an earlier round
FoundBankrupt == {p \in Ids : bankruptRound[p] >= 1 /\ bankruptRound[p] < roundNumber}

\* C10 as stated: a participant found bankrupt at a round end is out of
\* contention in every later round: betting is never held open for it
\* alone, the roll turn never comes to it, and the result calculation holds
\* no comparison for it.
C10_BankruptOutOfContention ==
  \A p \in FoundBankrupt :
    /\ ~(/\ state = "betting" /\ p # currentDealerId /\ currentBet[p] = 0
         /\ \A q \in players \ {currentDealerId, p} : currentBet[q] > 0)
    /\ ~(state = "player_roll" /\ currentPlayerId = p)
    /\ \A i \in 1..Len(roundResults) : roundResults[i].playerId # p

\* C10 amended: a participant found bankrupt at a round end stays in the
\* session and is only kept from becoming the dealer of the next round; in
\* every later round in which it is not the dealer the betting phase ends
\* only once it has wagered too, and the result calculation compares it
\* against the dealer after its own finalized roll.
C10_BankruptStaysInContention ==
  \A p \in FoundBankrupt :
    /\ p \in players
    /\ roundNumber = bankruptRound[p] + 1 => p # currentDealerId
    /\ (p # currentDealerId /\ state \notin {"betting", "waiting"})
         => currentBet[p] > 0
    /\ (p # currentDealerId /\ state \in {"result", "round_end", "game_end"})
         => /\ \E i \in 1..Len(finalized) : finalized[i] = p
            /\ \E i \in 1..Len(roundResults) : roundResults[i].playerId = p

\* a participant found bankrupt at an earlier round end has won chips from
\* the dealer in the result calculation of a later round
C10_Witness ==
  /\ state = "result"
  /\ \E p \in FoundBankrupt : \E i \in 1..Len(roundResults) :
       /\ roundResults[i].playerId = p
       /\ roundResults[i].winner = "player"
       /\ roundResults[i].chipTransfer > 0

\* C11: at round end the session enters game_end if and only if at most one
\* participant has a balance greater than 0; otherwise it enters round_end
\* with the timer of the next round armed, and that timer begins the next
\* round's betting.  On game_end the ranks 1..n are assigned in
\* non-increasing order of balance.
C11_GameEndIffAtMostOneSolvent ==
  [][/\ (roundTimer = "endRound" /\ roundTimer' # "endRound") =>
          /\ (state' = "game_end") <=> (Cardinality({p \in players : chips[p] > 0}) <= 1)
          /\ state' # "game_end" =>
               (state' = "round_end" /\ roundTimer' = "startNewRound")
          /\ state' = "game_end" =>
               /\ {rank'[p] : p \in players} = 1..Cardinality(players)
               /\ \A p, q \in players : rank'[p] < rank'[q] => chips'[p] >= chips'[q]
     /\ (state = "round_end" /\ state' # "round_end") =>
          (state' = "betting" /\ roundNumber' = roundNumber + 1)
    ]_vars

\* a game of three has ended with exactly one participant above 0 and the
\* three ranks handed out
C11_Witness ==
  /\ state = "game_end"
  /\ Cardinality(players) = 3
  /\ Cardinality({p \in players : chips[p] > 0}) = 1
  /\ {rank[p] : p \in players} = 1..3

\* C13: the phase changes from s to t only if the pair (s, t) is listed in
\* the transition table: every changeState call of a step is made for a
\* listed pair, and the phase moves in no other way.
C13_EveryChangeListed ==
  \A i \in 1..Len(changes) : isValidTransition(changes[i].from, changes[i].to)

\* the phases of a round, from its betting to its result
RoundPhases == {"betting", "player_roll", "dealer_roll", "interrupt_window",
                "waiting_for_action", "result"}

\* C12: in every reachable state whose phase lies between betting and
\* result of a round, exactly one participant carries the dealer flag, that
\* participant is the one named as current dealer, and it is a current
\* member of the session, also after participants have left during the game.
C12_OneDealerAmongMembers ==
  state \in RoundPhases => {p \in players : isDealer[p]} = {currentDealerId}

\* the unresolved records the ledger holds against target for round
Unresolved(log, target, round) ==
  {i \in 1..Len(log) : /\ log[i].playerId = target
                       /\ log[i].roundNumber = round
                       /\ ~log[i].doubted}

\* C14: an accusation against a participant that holds one unresolved
\* covert-activation record for the current round succeeds and marks that
\* record resolved with the accuser recorded; an accusation against a target
\* without such a record (every later accusation against the same target
\* and round among them) fails as a false accusation and leaves the ledger
\* as it was; a resolved record never changes again.
C14_FirstAccusationResolves ==
  [][/\ (doubts' = doubts + 1) =>
          LET open == Unresolved(cheatLog, reply'.target, roundNumber)
          IN  /\ Cardinality(open) = 1 =>
                   /\ reply'.caught
                   /\ \E i \in open :
                        cheatLog' = [cheatLog EXCEPT ![i].doubted = TRUE,
                                                     ![i].doubterId = reply'.by]
              /\ open = {} => (~reply'.caught /\ cheatLog' = cheatLog)
     /\ \A i \in 1..Len(cheatLog) :
          cheatLog[i].doubted => (Len(cheatLog') >= i /\ cheatLog'[i] = cheatLog[i])
    ]_vars

\* the second accusation of a game has just failed against a target whose
\* record for the current round an earlier accusation had resolved
C14_Witness ==
  /\ doubts = 2
  /\ reply.op = "doubt" /\ reply.success /\ ~reply.caught
  /\ \E i \in 1..Len(cheatLog) :
       /\ cheatLog[i].playerId = reply.target
       /\ cheatLog[i].roundNumber = roundNumber
       /\ cheatLog[i].doubted
       /\ cheatLog[i].doubterId # 0

\* C15: an accepted accusation that succeeds lowers the target's balance by
\* the penalty P (GOD_HAND_LOSS when the record's ability is god_hand,
\* DEFAULT_CHEAT_LOSS for any other ability), raises the accuser's balance by
\* floor(P / 2) and changes no other balance; one that fails lowers the
\* accuser's balance by FALSE_ACCUSATION_LOSS and changes no other balance
\* and no ledger record.
C15_AccusationPenalties ==
  [][(doubts' = doubts + 1) =>
       LET a == reply'.by
           t == reply'.target
           open == Unresolved(cheatLog, t, roundNumber)
       IN  IF reply'.caught
             THEN \E i \in open :
                    LET P == IF cheatLog[i].skillId = "god_hand"
                               THEN GOD_HAND_LOSS ELSE DEFAULT_CHEAT_LOSS
                    IN  /\ chips'[t] = chips[t] - P
                        /\ chips'[a] = chips[a] + (P \div 2)
                        /\ \A q \in Ids \ {a, t} : chips'[q] = chips[q]
             ELSE /\ chips' = [chips EXCEPT ![a] = @ - FALSE_ACCUSATION_LOSS]
                  /\ cheatLog' = cheatLog
    ]_vars

\* C16: an accusation that names a target id which is not a participant of
\* the session is rejected with a failure result and leaves the session
\* unchanged: the phase stays interrupt_window with its timer still armed,
\* and no balance and no ledger record changes.
C16_UnknownTargetChangesNothing ==
  [][(doubts' = doubts + 1 /\ reply'.target \notin players) =>
       /\ ~reply'.success
       /\ state' = "interrupt_window"
       /\ interruptTimer'.armed
       /\ UNCHANGED <<roomVars, playerVars, skillVars>>
    ]_vars

\* C17: during an interrupt window an accusation is accepted only from a
\* participant other than the roller whose roll opened the window and only
\* against that roller; a self-accusation, or an accusation naming any
\* participant other than that roller, is rejected without changing
\* balances, the ledger or the turn.
C17_OnlyOthersAgainstTheRoller ==
  [][(doubts' = doubts + 1 /\ reply'.target \in players) =>
       \/ reply'.by # window.roller /\ reply'.target = window.roller
       \/ /\ ~reply'.success
          /\ UNCHANGED <<chips, cheatLog, state, currentPlayerIndex, currentPlayerId>>
    ]_vars

\* C18: an accusation submitted in any phase other than interrupt_window
\* returns a failure and changes nothing: no balance, no ledger record, no
\* timer and not the phase or the current roller.
C18_AccusationOutsideWindowRejected ==
  [][(reply'.op = "doubt" /\ state # "interrupt_window") =>
       /\ ~reply'.success
       /\ UNCHANGED <<roomVars, playerVars, skillVars>>
    ]_vars

\* an accusation has just been turned down while the session waits for an
\* ability decision, with the decision timer still armed
C18_Witness ==
  /\ reply.op = "doubt" /\ ~reply.success
  /\ state = "waiting_for_action"
  /\ actionTimer.armed
  /\ doubts = 0

\* C19: a decision submitted by any participant other than the one named in
\* the pending ability action, or submitted while no action is pending, is
\* rejected and changes nothing: the pending action, its decision timer, all
\* dice and hands, and the phase stay as they were.
C19_ForeignDecisionRejected ==
  [][(/\ reply'.op = "skill_action"
      /\ (pendingAction.playerId = 0 \/ pendingAction.playerId # reply'.by)) =>
       /\ ~reply'.success
       /\ UNCHANGED <<roomVars, playerVars, skillVars>>
    ]_vars

\* a decision has just been turned down that came from a participant other
\* than the one whose ability action is pending, and the action is pending
\* still, with its timer armed
C19_Witness ==
  /\ reply.op = "skill_action" /\ ~reply.success
  /\ state = "waiting_for_action"
  /\ pendingAction.playerId # 0
  /\ pendingAction.playerId # reply.by
  /\ actionTimer.armed

\* C20: whenever a before-roll or an after-roll hook of the roller's
\* ability returns a result that requires a human decision, rollDice records
\* that single pending action for the roller, moves the session to
\* waiting_for_action and starts the decision timer instead of finalizing
\* the roll.
C20_DecisionHookSuspendsRoll ==
  [][(/\ reply'.op = "roll_dice" /\ reply'.success
      /\ (BeforeRollRequiresAction(reply'.by) \/ RequiresAction(reply'.by))) =>
       /\ state' = "waiting_for_action"
       /\ pendingAction'.playerId = reply'.by
       /\ actionTimer'.armed
       /\ UNCHANGED <<currentDice, currentHand, hasRolled, finalized>>
    ]_vars

\* the after-roll hook of participant p returned an override of the hand
\* evaluated from the dice d
HandOverridden(p, d) ==
  p \in players /\ skill[p] = "revolutionary" /\ d # <<>>
    /\ RevolutionaryAfterRoll(d).modified

\* the hand of participant p that the round has to count: the overriding
\* hand when its after-roll hook returned one, else the evaluated hand
CountedHand(p, dice, hands) ==
  IF HandOverridden(p, dice[p]) THEN RevolutionaryAfterRoll(dice[p]).overrideHand
  ELSE hands[p]

\* C21: when the after-roll hook of the roller returns an override of the
\* evaluated hand (Revolutionary on a rolled 1-2-3: triple-ones, rank 100),
\* the hand recorded for the roller is the overriding hand, and result
\* calculation compares with that hand and pays with its multiplier.
C21_OverrideHandRecordedAndPaid ==
  [][/\ (reply'.op = "roll_dice" /\ reply'.success
          /\ HandOverridden(reply'.by, currentDice'[reply'.by])) =>
         currentHand'[reply'.by] = RevolutionaryAfterRoll(currentDice'[reply'.by]).overrideHand
     /\ (roundResults = <<>> /\ roundResults' # <<>>) =>
         \A i \in 1..Len(roundResults') :
           LET e == roundResults'[i]
               dealerHand == CountedHand(e.dealerId, currentDice, currentHand)
               playerHand == CountedHand(e.playerId, currentDice, currentHand)
           IN  /\ e.winner = compareHands(dealerHand, playerHand, TRUE).winner
               /\ e.chipTransfer = chipTransfer(e.bet, dealerHand, playerHand, 1, 1)
    ]_vars

\* the non-dealers of the session that have no wager
WithoutWager == {q \in players \ {currentDealerId} : currentBet[q] = 0}

C23_WagerRejections ==
  [][reply'.op = "place_bet" =>
       LET p == reply'.by
           amount == reply'.amount
           refused == \/ state # "betting"
                      \/ p \notin players
                      \/ p = currentDealerId
                      \/ amount < 1000
                      \/ amount > chips[p] /\ amount # 1000
       IN  /\ reply'.success <=> ~refused
           /\ ~reply'.success => UNCHANGED <<currentBet, chips, state>>
           /\ reply'.success =>
                /\ currentBet' = [currentBet EXCEPT ![p] = amount]
                /\ chips' = chips
    ]_vars

\* a participant whose balance is below the minimum has just had a wager
\* of exactly 1000 accepted
C23_Witness ==
  /\ reply.op = "place_bet" /\ reply.success
  /\ reply.amount = 1000
  /\ chips[reply.by] < 1000
  /\ currentBet[reply.by] = 1000

\* C24: a roll is accepted only from the current roller while the phase is
\* player_roll or from the dealer while the phase is dealer_roll; a roll
\* from anybody else or in any other phase is rejected, and a rejected roll
\* changes no dice, hand, reroll counter or timer and not the phase.
C24_RollOnlyInTurn ==
  [][reply'.op = "roll_dice" =>
       LET p == reply'.by
           inTurn == \/ state = "player_roll" /\ p = currentPlayerId
                     \/ state = "dealer_roll" /\ p = currentDealerId
       IN  /\ reply'.success => p \in players /\ inTurn
           /\ ~reply'.success =>
                UNCHANGED <<currentDice, currentHand, rerollCount, isWaitingForReroll,
                            interruptTimer, actionTimer, roundTimer, state>>
    ]_vars

\* the step runs finalizeRoll for participant p: an accepted roll that asks
\* for no decision, or the resolution of p's pending decision
RunsFinalizeRoll(p) ==
  \/ /\ reply'.op = "roll_dice" /\ reply'.success /\ reply'.by = p
     /\ pendingAction'.playerId = 0
  \/ /\ resolved'.count = resolved.count + 1
     /\ resolved'.playerId = p

\* C25: every roll that is finalized (a hand other than blank, or a blank
\* recorded as automatic loss) puts the session into interrupt_window with
\* the window timer armed for the roller; a blank with reroll attempts left
\* opens no window and leaves the phase and the current roller as they were
\* (so the session does not return to betting).
C25_FinalizedRollOpensWindow ==
  [][\A p \in Ids : RunsFinalizeRoll(p) =>
       IF currentHand'[p].type # "menashi" \/ rerollCount'[p] >= MAX_REROLL_ATTEMPTS
         THEN /\ state' = "interrupt_window"
              /\ interruptTimer'.armed
              /\ interruptTimer'.rolledPlayer = p
              /\ currentHand'[p].type = "menashi" => autoLoss'[p]
         ELSE /\ state' = state
              /\ state' # "betting"
              /\ currentPlayerId' = currentPlayerId
              /\ currentPlayerIndex' = currentPlayerIndex
              /\ ~interruptTimer'.armed
              /\ isWaitingForReroll'[p]
    ]_vars

\* a blank has just been recorded as automatic loss and the window of that
\* roll is open with its timer armed, after blanks that opened none
C25_Witness ==
  /\ state = "interrupt_window"
  /\ interruptTimer.armed
  /\ reply.op = "roll_dice" /\ reply.success
  /\ interruptTimer.rolledPlayer = reply.by
  /\ currentHand[reply.by].type = "menashi"
  /\ autoLoss[reply.by]
  /\ blanks[reply.by] = MAX_REROLL_ATTEMPTS
  /\ finalized = <<reply.by>>

\* the places of the roll order at which the id p stands
PlacesOf(order, p) == {i \in 1..Len(order) : order[i] = p}

\* C26: from game start until game end the roll order never changes, and
\* every current participant of the session stands in it exactly once,
\* whatever is invoked in between (wagers, rolls, accusations, leaves).
C26_RollOrderFixed ==
  [][state' # "waiting" =>
       /\ \A p \in players' : Cardinality(PlacesOf(playerOrder', p)) = 1
       /\ state # "waiting" => playerOrder' = playerOrder
    ]_vars

\* in the second round, after an accusation and the leave of a participant,
\* the roll order still has its three places
C26_Witness ==
  /\ roundNumber = 2
  /\ doubts = 1
  /\ Len(playerOrder) = 3
  /\ Cardinality(players) = 2
  /\ state = "player_roll"
  /\ ~exited

\* the number of dice of the triple d that show the value v
Showing(d, v) == Cardinality({i \in 1..3 : d[i] = v})

\* the reference table of the hands: category, value and rank of a triple
TableHand(d) ==
  LET values == {d[1], d[2], d[3]}
  IN  IF values = {1, 2, 3} THEN [type |-> "hifumi", value |-> 0, rank |-> 0 - 100]
      ELSE IF values = {4, 5, 6} THEN [type |-> "shigoro", value |-> 0, rank |-> 70]
      ELSE IF values = {1} THEN [type |-> "pinzoro", value |-> 1, rank |-> 100]
      ELSE IF Cardinality(values) = 1
        THEN LET v == CHOOSE x \in values : TRUE
             IN  [type |-> "arashi", value |-> v, rank |-> 80 + v]
      ELSE IF Cardinality(values) = 2
        THEN LET single == CHOOSE x \in values : Showing(d, x) = 1
             IN  [type |-> "normal", value |-> single, rank |-> 10 + single]
      ELSE [type |-> "menashi", value |-> 0, rank |-> 0]

\* the place of a hand in the order of the table, the strongest first:
\* triple-ones, storm 6 .. storm 2, 4-5-6, normal 6 .. normal 1, blank, 1-2-3
TablePlace(h) ==
  CASE h.type = "pinzoro" -> 1
    [] h.type = "arashi"  -> 8 - h.value
    [] h.type = "shigoro" -> 7
    [] h.type = "normal"  -> 14 - h.value
    [] h.type = "menashi" -> 14
    [] h.type = "hifumi"  -> 15

\* C27: for every triple of dice values in 1..6, in any order, evaluateHand
\* returns the category, value and rank of the reference table, and the
\* ranks order the hands as the table does: triple-ones > storm 6 > ... >
\* storm 2 > 4-5-6 > normal 6 > ... > normal 1 > blank > 1-2-3.
C27_EvaluateHandTable ==
  (call.fn = "evaluateHand" /\ call.done) =>
    /\ call.result = TableHand(call.dice)
    /\ call.result.type \in HandType
    /\ \A d \in Triples :
         (call.result.rank > evaluateHand(d).rank)
           <=> (TablePlace(TableHand(call.dice)) < TablePlace(TableHand(d)))

\* evaluateHand has returned the 1-2-3 hand for dice that fell as 3, 1, 2
C27_Witness ==
  /\ call.fn = "evaluateHand" /\ call.done
  /\ call.dice = <<3, 1, 2>>
  /\ call.result.type = "hifumi"

\* C28: forced comparison declares the dealer the winner when its rank is
\* higher or equal and the challenger only when the challenger's rank is
\* strictly higher, so a challenger's triple-ones beats every dealer hand
\* but triple-ones; non-forced comparison with a blank hand on either side
\* declares no winner and flags the blank side for reroll, the dealer's
\* side when the dealer's hand is blank.
C28_CompareHands ==
  (call.fn = "compareHands" /\ call.done) =>
    LET dealerHand == call.hand1
        challengerHand == call.hand2
    IN  IF call.forceResolution
          THEN /\ call.result.winner \in {"dealer", "player"}
               /\ call.result.winner = "player" <=> challengerHand.rank > dealerHand.rank
               /\ challengerHand.type = "pinzoro" =>
                    (call.result.winner = "player" <=> dealerHand.type # "pinzoro")
          ELSE "menashi" \in {dealerHand.type, challengerHand.type} =>
                 /\ call.result.winner = "null"
                 /\ call.result.needsReroll =
                      IF dealerHand.type = "menashi" THEN "dealer" ELSE "player"

\* a forced comparison of triple-ones with triple-ones has returned the
\* dealer as the winner
C28_Witness ==
  /\ call.fn = "compareHands" /\ call.done
  /\ call.forceResolution
  /\ call.hand1.type = "pinzoro" /\ call.hand2.type = "pinzoro"
  /\ call.result.winner = "dealer"

\* C29: for every hand category and role getMultiplier returns the value
\* of the table: triple-ones 5 as dealer and 3 as challenger, storm 3 and 3,
\* the 4-5-6 hand 2 and 2, normal 1 and 1, blank 1 and 1, the 1-2-3 hand 2
\* and 2.
C29_MultiplierTable ==
  (call.fn = "getMultiplier" /\ call.done) =>
    call.result = RoleMultiplier(call.hand.type,
                                 IF call.isDealer THEN "dealer" ELSE "player")

\* getMultiplier has returned 3 for triple-ones in the challenger's role
C29_Witness ==
  /\ call.fn = "getMultiplier" /\ call.done
  /\ call.hand.type = "pinzoro" /\ ~call.isDealer
  /\ call.result = 3

\* the abilities whose class sets isCheat
CovertSkills == {"god_hand", "switch"}

\* the participants whose covert ability is marked used by the step
CovertlyActivated ==
  {p \in players : skill[p] \in CovertSkills /\ useCount'[p] = useCount[p] + 1}

\* C30: every activation of a covert ability (GodHand, Switch) appends
\* exactly one unresolved record with the actor, the ability id and the
\* current round number to the ledger; a step without such an activation
\* (the activation of a non-covert ability included) appends none; and no
\* step of a game removes a record or changes its actor, ability or round.
C30_LedgerAppends ==
  [][state # "waiting" =>
       /\ Len(cheatLog') >= Len(cheatLog)
       /\ \A i \in 1..Len(cheatLog) :
            /\ cheatLog'[i].playerId = cheatLog[i].playerId
            /\ cheatLog'[i].skillId = cheatLog[i].skillId
            /\ cheatLog'[i].roundNumber = cheatLog[i].roundNumber
       /\ \A p \in CovertlyActivated :
            /\ Len(cheatLog') = Len(cheatLog) + 1
            /\ cheatLog'[Len(cheatLog')] =
                 [playerId |-> p, skillId |-> skill[p], roundNumber |-> roundNumber,
                  doubted |-> FALSE, doubterId |-> 0]
       /\ CovertlyActivated = {} => Len(cheatLog') = Len(cheatLog)
    ]_vars

\* the ledger holds a resolved GodHand record and an unresolved Switch
\* record, and the GravityMaster has been used without leaving one
C30_Witness ==
  /\ Len(cheatLog) = 2
  /\ \E i, j \in 1..2 :
       /\ cheatLog[i].skillId = "god_hand" /\ cheatLog[i].doubted
       /\ cheatLog[j].skillId = "switch" /\ ~cheatLog[j].doubted
  /\ \E p \in players : skill[p] = "gravity_master" /\ useCount[p] = 1

\* the instance s has its remaining cooldown at zero and its ceiling, if it
\* has one, not exhausted
Usable(s) ==
  /\ s.cooldownRemaining = 0
  /\ s.maxUses = 0 - 1 \/ s.useCount < s.maxUses

\* C31: the use counter of an ability with a finite ceiling never exceeds
\* the ceiling; a hook takes effect (asks for a decision, or uses the
\* ability) only while the remaining cooldown is zero and the ceiling is not
\* exhausted; each use adds one to the counter and sets the remaining
\* cooldown to the ability's cooldown; each round end lowers a positive
\* remaining cooldown by one and leaves a remaining cooldown of zero at zero.
C31_UseCeiling ==
  [][/\ \A p \in players :
          /\ maxUses(skill'[p]) # 0 - 1 => useCount'[p] <= maxUses(skill'[p])
          /\ (state # "waiting" /\ useCount'[p] # useCount[p]) =>
               /\ Usable(SkillOf(p))
               /\ useCount'[p] = useCount[p] + 1
               /\ cooldownRemaining'[p] = cooldown(skill[p])
          /\ (pendingAction'.playerId = p /\ pendingAction' # pendingAction) =>
               Usable(SkillOf(p))
          /\ (roundTimer = "endRound" /\ roundTimer' # "endRound") =>
               cooldownRemaining'[p] =
                 IF cooldownRemaining[p] > 0 THEN cooldownRemaining[p] - 1 ELSE 0
     /\ (call'.done /\ ~call.done /\ call.fn = "beforeRoll") =>
          /\ call'.override = Usable(call.skill)
          /\ ~Usable(call.skill) => call'.result = call.skill
          /\ Usable(call.skill) =>
               /\ call'.result.useCount = call.skill.useCount + 1
               /\ call'.result.cooldownRemaining = call.skill.cooldown
               /\ call.skill.maxUses # 0 - 1 =>
                    call'.result.useCount <= call.skill.maxUses
     /\ (call'.done /\ ~call.done /\ call.fn = "onRoundEnd") =>
          /\ call'.result.useCount = call.skill.useCount
          /\ call'.result.cooldownRemaining =
               IF call.skill.cooldownRemaining > 0
                 THEN call.skill.cooldownRemaining - 1 ELSE 0
    ]_vars

\* in the second round the holder of the GodHand, whose one use was spent in
\* the first, has rolled and keeps the dice that fell
C31_Witness ==
  /\ roundNumber = 2
  /\ \E p \in players :
       /\ skill[p] = "god_hand" /\ useCount[p] = 1
       /\ hasRolled[p] /\ currentDice[p] = <<2, 2, 5>>
  /\ \E p \in players : skill[p] = "gravity_master" /\ useCount[p] = 1

\* the number of registered abilities a returned call did not exclude
Available == Cardinality(Range(getSkillIds) \ call.excludeIds)

\* the list a returned call of getRandomSkills gave has pairwise distinct
\* identifiers of abilities that were not excluded
DistinctAvailable ==
  /\ \A i \in 1..Len(call.result) :
       call.result[i] \in Range(getSkillIds) \ call.excludeIds
  /\ \A i, j \in 1..Len(call.result) : call.result[i] = call.result[j] => i = j

\* C32 as stated: without duplicates getRandomSkills(count) returns
\* min(count, available) instances with pairwise distinct identifiers for
\* every random draw; with duplicates allowed it returns exactly count
\* instances.
C32_RandomSkillsAsStated ==
  (call.fn = "getRandomSkills" /\ call.done) =>
    IF call.allowDuplicates
      THEN Len(call.result) = call.count
      ELSE /\ Len(call.result) =
                IF call.count < Available THEN call.count ELSE Available
           /\ DistinctAvailable

\* C32, amended: without duplicates getRandomSkills(count) returns
\* min(count, available) instances with pairwise distinct identifiers for
\* every random draw; with duplicates allowed it returns exactly count
\* instances when at least one ability is available, and none when every
\* registered ability is excluded.
C32_RandomSkills ==
  (call.fn = "getRandomSkills" /\ call.done) =>
    IF call.allowDuplicates
      THEN /\ Len(call.result) = IF Available = 0 THEN 0 ELSE call.count
           /\ \A i \in 1..Len(call.result) :
                call.result[i] \in Range(getSkillIds) \ call.excludeIds
      ELSE /\ Len(call.result) =
                IF call.count < Available THEN call.count ELSE Available
           /\ DistinctAvailable

\* a call without duplicates that asked for more abilities than available
\* has returned all of the available ones
C32_Witness ==
  /\ call.fn = "getRandomSkills" /\ call.done /\ ~call.allowDuplicates
  /\ Available = 3 /\ call.count = 4
  /\ Len(call.result) = 3

\* C33: startGame succeeds only while the session is in waiting with at
\* least 2 participants, and otherwise returns failure and leaves the session
\* unchanged; a join is rejected, with the roster and the rest of the session
\* unchanged, when the session is not in waiting or already has 8
\* participants.
C33_StartAndJoinGuards ==
  [][/\ reply'.op = "start_game" =>
          /\ reply'.success <=>
               (state = "waiting" /\ Cardinality(players) >= MIN_PLAYERS)
          /\ ~reply'.success => UNCHANGED <<roomVars, playerVars, skillVars>>
     /\ (reply'.op = "join_room"
           /\ (state # "waiting" \/ Cardinality(players) >= MAX_PLAYERS)) =>
          /\ ~reply'.success
          /\ UNCHANGED <<roomVars, playerVars, skillVars>>
    ]_vars

\* a ninth socket was turned away from a full lobby
C33_Witness ==
  /\ reply.op = "join_room" /\ ~reply.success
  /\ state = "waiting" /\ Cardinality(players) = MAX_PLAYERS

\* the step runs the continuation of the pending action from the callback
\* of the decision timer
TimerResolves == resolved' # resolved /\ resolved'.byTimer

\* C34: when the decision timer of a pending ability action fires, the
\* roller's final dice are the dice from before the decision, no other
\* participant's dice or hand change, and no record is appended to the
\* ledger, whichever ability asked for the decision.
C34_TimeoutDeclines ==
  [][TimerResolves =>
       /\ currentDice'[pendingAction.playerId] = pendingAction.originalDice
       /\ \A q \in players \ {pendingAction.playerId} :
            /\ currentDice'[q] = currentDice[q]
            /\ currentHand'[q] = currentHand[q]
       /\ cheatLog' = cheatLog
    ]_vars

\* a pending ability action is recorded and its decision timer is armed
PendingArmed == pendingAction.playerId # 0 /\ actionTimer.armed

\* C35: the phase is waiting_for_action exactly when a pending ability
\* action is recorded with its decision timer armed (so the session has left
\* waiting_for_action as soon as the pending action is consumed), and no roll
\* is accepted while the phase is waiting_for_action.
C35_WaitingIffPending ==
  [][/\ (state' = "waiting_for_action") <=> PendingArmed'
     /\ (reply'.op = "roll_dice" /\ reply'.success) => state # "waiting_for_action"
    ]_vars

\* the step answers a decision of the pending participant with an error
DecisionRejected ==
  /\ state = "waiting_for_action"
  /\ pendingAction.playerId # 0
  /\ reply'.op = "skill_action" /\ reply'.by = pendingAction.playerId
  /\ ~reply'.success

\* C36: a decision of the pending participant that is rejected for its
\* payload leaves the session unchanged: the pending action remains recorded
\* and its decision timer stays armed.
C36_MalformedDecisionRejected ==
  [][DecisionRejected =>
       /\ UNCHANGED <<roomVars, playerVars, skillVars>>
       /\ PendingArmed'
    ]_vars

\* C37: each participant's recorded dice are either empty or exactly three
\* values in 1..6, and a recorded hand is the evaluation of the recorded
\* dice, also after a continuation (Sniper, Switch) changed the dice of
\* another participant.
C37_DiceShape ==
  \A p \in players :
    /\ \/ currentDice[p] = <<>>
       \/ /\ Len(currentDice[p]) = 3
          /\ \A i \in 1..3 : currentDice[p][i] \in 1..6
    /\ currentHand[p] # NoHand =>
         /\ Len(currentDice[p]) = 3
         /\ currentHand[p] = evaluateHand(currentDice[p])

\* C38: a participant whose roll was recorded as an automatic loss wins no
\* comparison of that round's result calculation, so no entry of the
\* round's results transfers chips to that participant.
C38_AutoLossNeverWins ==
  \A i \in 1..Len(roundResults) :
    /\ autoLoss[roundResults[i].playerId] => roundResults[i].winner # "player"
    /\ autoLoss[roundResults[i].dealerId] => roundResults[i].winner # "dealer"

\* all non-dealers have wagered: placeBet has opened the rolls of the round
AllWagered ==
  /\ state \in {"player_roll", "dealer_roll", "interrupt_window"}
  /\ \A p \in players : ~isDealer[p] => currentBet[p] > 0

\* C39: every round terminates: once all non-dealers have wagered, if the
\* participants keep rolling and the timers fire, the session reaches
\* result and then round_end, whatever accusations are submitted.
C39_RoundTerminates ==
  /\ AllWagered ~> (state = "result")
  /\ (state = "result") ~> (state = "round_end")

\* the total of all participants' balances
TotalChips == SumOver(chips, players)

\* C40: with no abilities assigned, in a started game whose participants
\* stay, a step changes the total of the balances only as a set completion
\* (+100000 per participant) or as an accepted, failed accusation (-100 for
\* the accuser); wagers, rolls, rerolls, timer expiries and the result
\* calculation leave the total as it is.
C40_TotalChangesOnlyByBonusAndPenalty ==
  [][(state # "waiting" /\ players' = players) =>
       LET delta == SumOver(chips', players) - SumOver(chips, players)
           completes == currentSet' # currentSet
           accused == state = "interrupt_window" /\ reply'.op = "doubt"
       IN  /\ completes => delta = SET_BONUS_CHIPS * Cardinality(players)
           /\ accused => delta = 0 - FALSE_ACCUSATION_LOSS
           /\ ~completes /\ ~accused => delta = 0]_vars

\* a set was completed after a failed accusation and a result calculation
\* that moved chips
C40_Witness ==
  /\ currentSet = 2
  /\ doubts = 1
  /\ \E p \in players : chips[p] > INITIAL_CHIPS + SET_BONUS_CHIPS
  /\ TotalChips = Cardinality(players) * (INITIAL_CHIPS + SET_BONUS_CHIPS)
                    - FALSE_ACCUSATION_LOSS

====
